---- MODULE Spec2Model ----
(***************************************************************************)
(* Quote aggregator of FinFusion (src/tab3.py): StockDataFetcher and the   *)
(* two concrete providers, FinnhubProvider and YFinanceProvider.           *)
(*                                                                         *)
(* Specifications:                                                         *)
(*   - Spec: one fetcher, get_live_stock_price one provider call a step;   *)
(*   - SpecCalls: a constructed fetcher over several calls whose caller    *)
(*     keeps, and writes into, the dicts it is handed;                     *)
(*   - SpecProviders: the provider methods on their own, over the          *)
(*     payloads the upstream services may answer with;                     *)
(*   - SpecUI: the page handlers and the chat handler that look stocks up. *)
(*                                                                         *)
(* Python values are encoded as follows.                                   *)
(*   - a dict is a function whose DOMAIN is the set of its keys;           *)
(*   - None as a field value is the number None;                           *)
(*   - None where a dict is expected is the record PyNone;                 *)
(*   - a raised exception is the record Raise;                             *)
(*   - a ticker string is a sequence of one-character strings;             *)
(*   - prices are integers (currency units), percentages are integers.     *)
(***************************************************************************)
EXTENDS Integers, Sequences, FiniteSets, TLC

\* ------------------------------------------------------------------------
\* Bounds of the model
\* ------------------------------------------------------------------------

\* Longest provider list the aggregator is run on.
MaxProviders == 3

\* ------------------------------------------------------------------------
\* Python values
\* ------------------------------------------------------------------------

None == -1

PyNone == [py_none |-> TRUE]

Raise == [py_raise |-> TRUE]

EmptyDict == [k \in {} |-> None]

\* d.get(k)
Get(d, k) == IF k \in DOMAIN d THEN d[k] ELSE None

\* truth value of a number or None
Truthy(v) == v # None /\ v # 0

\* truth value of an Optional[Dict]
DictTruthy(d) == d # PyNone /\ DOMAIN d # {}

\* a or b
Or(a, b) == IF Truthy(a) THEN a ELSE b

\* d.update(o)
Update(d, o) ==
    [k \in (DOMAIN d) \cup (DOMAIN o) |-> IF k \in DOMAIN o THEN o[k] ELSE d[k]]

\* str.upper() on ASCII letters
LowerLetters ==
    <<"a", "b", "c", "d", "e", "f", "g", "h", "i", "j", "k", "l", "m",
      "n", "o", "p", "q", "r", "s", "t", "u", "v", "w", "x", "y", "z">>

UpperLetters ==
    <<"A", "B", "C", "D", "E", "F", "G", "H", "I", "J", "K", "L", "M",
      "N", "O", "P", "Q", "R", "S", "T", "U", "V", "W", "X", "Y", "Z">>

UpperChar(c) ==
    IF \E n \in DOMAIN LowerLetters : LowerLetters[n] = c
    THEN UpperLetters[CHOOSE n \in DOMAIN LowerLetters : LowerLetters[n] = c]
    ELSE c

Upper(s) == [n \in DOMAIN s |-> UpperChar(s[n])]

\* safe_api_call(func, error_msg, default_return): func is given by its outcome
safe_api_call_propagates(outcome, default_return) == outcome

safe_api_call(outcome, default_return) ==
    IF outcome = Raise THEN default_return ELSE outcome

\* ------------------------------------------------------------------------
\* The upstream services (environment)
\* ------------------------------------------------------------------------

\* The symbol under which the upstream services file the security.
Listed == <<"A", "A", "P", "L">>

\* Tickers a caller may pass: the listed symbol and a lower-case spelling.
Tickers == {<<"a", "a", "p", "l">>, Listed}

\* Readings of the wall clock.
Times == {1, 2}

\* Finnhub /quote payloads
FinnhubQuote150 ==
    [c |-> 150, pc |-> 100, d |-> 50, dp |-> 50, h |-> 152, l |-> 99, o |-> 101]

FinnhubQuote155 ==
    [c |-> 155, pc |-> 100, d |-> 55, dp |-> 55, h |-> 156, l |-> 98, o |-> 102]

FinnhubQuoteUnknown ==
    [c |-> 0, pc |-> 0, d |-> None, dp |-> None, h |-> 0, l |-> 0, o |-> 0]

\* What the Finnhub API holds for the listed symbol during one aggregation:
\* the outcome of client.quote, client.company_profile2 and
\* client.company_basic_financials.
FinnhubDown == [quote |-> Raise, profile |-> Raise, metrics |-> Raise]

FinnhubUnknown ==
    [quote |-> FinnhubQuoteUnknown, profile |-> EmptyDict,
     metrics |-> [metric |-> EmptyDict]]

FinnhubNoPE ==
    [quote |-> FinnhubQuote150,
     profile |-> [marketCapitalization |-> 2, name |-> 11, finnhubIndustry |-> 21],
     metrics |-> [metric |-> [peBasicExclExtraTTM |-> None, peTTM |-> None]]]

FinnhubFull ==
    [quote |-> FinnhubQuote155,
     profile |-> [marketCapitalization |-> 0, name |-> 12],
     metrics |-> [metric |-> [peBasicExclExtraTTM |-> None, peTTM |-> 290]]]

FinnhubUpstreams == {FinnhubDown, FinnhubUnknown, FinnhubNoPE, FinnhubFull}

\* yfinance Ticker.info payloads
YInfo150 ==
    [currentPrice |-> 150, previousClose |-> 100, dayHigh |-> 151, dayLow |-> 97,
     open |-> 103, volume |-> 1000, marketCap |-> None, trailingPE |-> None,
     forwardPE |-> None, shortName |-> 13, industry |-> 23]

YInfo155 ==
    [currentPrice |-> 155, previousClose |-> 100, dayHigh |-> 157, dayLow |-> 96,
     open |-> 104, volume |-> 2000, marketCap |-> 5000000, trailingPE |-> 302,
     longName |-> 14, industry |-> 24, sector |-> 34]

\* What yfinance holds for the listed symbol during one aggregation: the
\* outcome of reading Ticker.info in get_quote and in get_company_info.
YFinanceDown == [quote_info |-> Raise, company_info |-> Raise]

YFinanceUnknown == [quote_info |-> EmptyDict, company_info |-> EmptyDict]

YFinanceQuoteOnly == [quote_info |-> YInfo150, company_info |-> Raise]

YFinanceFull == [quote_info |-> YInfo155, company_info |-> YInfo155]

YFinanceUpstreams == {YFinanceDown, YFinanceUnknown, YFinanceQuoteOnly, YFinanceFull}

ProviderKinds == {"finnhub", "yfinance"}

UpstreamsOf(kind) ==
    IF kind = "finnhub" THEN FinnhubUpstreams ELSE YFinanceUpstreams

\* Whether the services match symbols exactly: open for a spelling other
\* than the listed one, of no effect for the listed one.
SpellingOutcomes(symbol) == IF symbol = Listed THEN {FALSE} ELSE BOOLEAN

\* What a service answers for `symbol`: its data for the listed symbol, or,
\* when the service matches symbols exactly and the symbol is spelled
\* otherwise, its answer for a symbol it does not know.
Served(kind, up, exact, symbol) ==
    IF exact /\ symbol # Listed
    THEN (IF kind = "finnhub" THEN FinnhubUnknown ELSE YFinanceUnknown)
    ELSE up

\* ------------------------------------------------------------------------
\* FinnhubProvider
\* ------------------------------------------------------------------------

\* _get_quote of FinnhubProvider.get_quote; quote is the outcome of
\* self.client.quote(ticker)
Finnhub_get_quote_inner(quote) ==
    IF quote = Raise THEN Raise
    ELSE IF DictTruthy(quote) /\ Truthy(Get(quote, "c")) /\ quote.c > 0
    THEN IF {"pc", "d", "dp"} \subseteq DOMAIN quote
         THEN [price |-> quote.c,
               previous_close |-> quote.pc,
               change |-> quote.d,
               change_percent |-> quote.dp,
               high |-> Get(quote, "h"),
               low |-> Get(quote, "l"),
               open |-> Get(quote, "o")]
         ELSE Raise
    ELSE PyNone

FinnhubProvider_get_quote(served) ==
    safe_api_call(Finnhub_get_quote_inner(served.quote), PyNone)

\* _get_profile; profile is the outcome of self.client.company_profile2
Finnhub_get_profile(profile) ==
    IF profile = Raise THEN Raise
    ELSE IF DictTruthy(profile)
    THEN LET market_cap == Get(profile, "marketCapitalization")
         IN [market_cap |-> IF Truthy(market_cap) THEN market_cap * 1000000
                            ELSE None,
             name |-> Get(profile, "name"),
             industry |-> Get(profile, "finnhubIndustry")]
    ELSE EmptyDict

\* _get_metrics; metrics is the outcome of
\* self.client.company_basic_financials
Finnhub_get_metrics(metrics) ==
    IF metrics = Raise THEN Raise
    ELSE IF DictTruthy(metrics) /\ "metric" \in DOMAIN metrics
    THEN [pe_ratio |-> Or(Get(metrics.metric, "peBasicExclExtraTTM"),
                          Get(metrics.metric, "peTTM"))]
    ELSE EmptyDict

\* An exception that leaves safe_api_call leaves get_company_info too.
FinnhubProvider_get_company_info(served) ==
    LET profile_data == safe_api_call(Finnhub_get_profile(served.profile), EmptyDict)
        metrics_data == safe_api_call(Finnhub_get_metrics(served.metrics), EmptyDict)
    IN IF profile_data = Raise \/ metrics_data = Raise THEN Raise
       ELSE LET info == Update(Update(EmptyDict, profile_data), metrics_data)
            IN IF DOMAIN info # {} THEN info ELSE PyNone

\* ------------------------------------------------------------------------
\* YFinanceProvider
\* ------------------------------------------------------------------------

\* _get_quote of YFinanceProvider.get_quote; info is the outcome of stock.info
YFinance_get_quote_inner(info) ==
    IF info = Raise THEN Raise
    ELSE IF ~DictTruthy(info) \/ "currentPrice" \notin DOMAIN info THEN PyNone
    ELSE LET current == Or(Get(info, "currentPrice"), Get(info, "regularMarketPrice"))
             prev_close == Get(info, "previousClose")
         IN IF Truthy(current) /\ Truthy(prev_close)
            THEN LET change == current - prev_close
                     change_pct == (change * 100) \div prev_close
                 \* (change / prev_close) * 100 in floating point; the
                 \* payloads of the model make the division exact
                 IN [price |-> current,
                     previous_close |-> prev_close,
                     change |-> change,
                     change_percent |-> change_pct,
                     high |-> Get(info, "dayHigh"),
                     low |-> Get(info, "dayLow"),
                     open |-> Get(info, "open"),
                     volume |-> Get(info, "volume")]
            ELSE PyNone

YFinanceProvider_get_quote(served) ==
    safe_api_call(YFinance_get_quote_inner(served.quote_info), PyNone)

\* _get_info of YFinanceProvider.get_company_info
YFinance_get_info(info) ==
    IF info = Raise \/ info = PyNone THEN Raise
    ELSE [market_cap |-> Get(info, "marketCap"),
          pe_ratio |-> Or(Get(info, "trailingPE"), Get(info, "forwardPE")),
          volume |-> Get(info, "volume"),
          name |-> Or(Get(info, "longName"), Get(info, "shortName")),
          industry |-> Get(info, "industry"),
          sector |-> Get(info, "sector")]

YFinanceProvider_get_company_info(served) ==
    safe_api_call(YFinance_get_info(served.company_info), EmptyDict)

\* ------------------------------------------------------------------------
\* The provider capability, dispatched on the provider's class
\* ------------------------------------------------------------------------

FinnhubProvider == [kind |-> "finnhub"]

YFinanceProvider == [kind |-> "yfinance"]

ProviderObjects == {FinnhubProvider, YFinanceProvider}

get_quote(provider, up, exact, symbol) ==
    IF provider.kind = "finnhub"
    THEN FinnhubProvider_get_quote(Served(provider.kind, up, exact, symbol))
    ELSE YFinanceProvider_get_quote(Served(provider.kind, up, exact, symbol))

get_company_info(provider, up, exact, symbol) ==
    IF provider.kind = "finnhub"
    THEN FinnhubProvider_get_company_info(Served(provider.kind, up, exact, symbol))
    ELSE YFinanceProvider_get_company_info(Served(provider.kind, up, exact, symbol))


\* ------------------------------------------------------------------------
\* StockDataFetcher
\* ------------------------------------------------------------------------

\* Values of the finnhub_key argument: None, the empty string, a key.
NoKey == "<None>"

FinnhubKeys == {NoKey, "", "token"}

KeyTruthy(key) == key # NoKey /\ key # ""

\* validate_api_key
validate_api_key(key) == IF ~KeyTruthy(key) THEN Raise ELSE PyNone

\* FinnhubProvider.__init__; finnhub_ok: "import finnhub" and finnhub.Client
\* succeed
FinnhubProvider_init(api_key, finnhub_ok) ==
    IF validate_api_key(api_key) = Raise THEN Raise
    ELSE IF ~finnhub_ok THEN Raise
    ELSE FinnhubProvider

\* YFinanceProvider.__init__; yfinance_ok: "import yfinance" succeeds
YFinanceProvider_init(yfinance_ok) ==
    IF ~yfinance_ok THEN Raise ELSE YFinanceProvider

\* StockDataFetcher.__init__: [providers, raised]
StockDataFetcher_init_fail_fast(finnhub_key, finnhub_ok, yfinance_ok) ==
    LET first == IF KeyTruthy(finnhub_key)
                    /\ FinnhubProvider_init(finnhub_key, finnhub_ok) # Raise
                 THEN <<FinnhubProvider_init(finnhub_key, finnhub_ok)>>
                 ELSE <<>>
    IN IF YFinanceProvider_init(yfinance_ok) = Raise
       THEN [providers |-> first, raised |-> first = <<>>]
       ELSE [providers |-> Append(first, YFinanceProvider_init(yfinance_ok)),
             raised |-> FALSE]

StockDataFetcher_init_yfinance_first(finnhub_key, finnhub_ok, yfinance_ok) ==
    LET first == IF YFinanceProvider_init(yfinance_ok) # Raise
                 THEN <<YFinanceProvider_init(yfinance_ok)>>
                 ELSE <<>>
    IN IF KeyTruthy(finnhub_key)
          /\ FinnhubProvider_init(finnhub_key, finnhub_ok) # Raise
       THEN [providers |-> Append(first, FinnhubProvider_init(finnhub_key, finnhub_ok)),
             raised |-> FALSE]
       ELSE [providers |-> first, raised |-> FALSE]

StockDataFetcher_init(finnhub_key, finnhub_ok, yfinance_ok) ==
    LET first == IF KeyTruthy(finnhub_key)
                    /\ FinnhubProvider_init(finnhub_key, finnhub_ok) # Raise
                 THEN <<FinnhubProvider_init(finnhub_key, finnhub_ok)>>
                 ELSE <<>>
    IN IF YFinanceProvider_init(yfinance_ok) = Raise
       THEN [providers |-> first, raised |-> FALSE]
       ELSE [providers |-> Append(first, YFinanceProvider_init(yfinance_ok)),
             raised |-> FALSE]

\* The argument the loops hand to provider.get_quote and
\* provider.get_company_info.
query_symbol(ticker) == ticker

\* One iteration of the quote loop, given the provider's answer:
\* the new result and whether the loop breaks.
quote_iteration_no_break(result, quote) ==
    IF DictTruthy(quote)
    THEN [result |-> Update(result, quote), brk |-> FALSE]
    ELSE [result |-> result, brk |-> FALSE]

quote_iteration_always_break(result, quote) ==
    IF DictTruthy(quote)
    THEN [result |-> Update(result, quote), brk |-> TRUE]
    ELSE [result |-> result, brk |-> TRUE]

quote_iteration(result, quote) ==
    IF DictTruthy(quote)
    THEN [result |-> Update(result, quote), brk |-> TRUE]
    ELSE [result |-> result, brk |-> FALSE]

\* One iteration of the company-info loop, given the provider's answer.
merge_company_info_overwrites(result, company_info) ==
    IF DictTruthy(company_info)
    THEN LET present == {key \in DOMAIN company_info : company_info[key] # None}
         IN Update(result, [key \in present |-> company_info[key]])
    ELSE result

merge_company_info_copies_none(result, company_info) ==
    IF DictTruthy(company_info)
    THEN LET missing == {key \in DOMAIN company_info : key \notin DOMAIN result}
         IN Update(result, [key \in missing |-> company_info[key]])
    ELSE result

merge_company_info_defaults_zero(result, company_info) ==
    IF DictTruthy(company_info)
    THEN LET missing == {key \in DOMAIN company_info : key \notin DOMAIN result}
         IN Update(result, [key \in missing |->
                               IF company_info[key] # None
                               THEN company_info[key] ELSE 0])
    ELSE result

merge_company_info(result, company_info) ==
    IF DictTruthy(company_info)
    THEN LET missing == {key \in DOMAIN company_info :
                            key \notin DOMAIN result /\ company_info[key] # None}
         IN Update(result, [key \in missing |-> company_info[key]])
    ELSE result

\* result['ticker'] = ticker.upper(); result['timestamp'] = now, formatted
\* to the second (now is the clock reading in seconds).
attach_ticker_as_given(result, ticker, now) ==
    Update(result, [ticker |-> ticker, timestamp |-> now])

attach_ticker_and_timestamp(result, ticker, now) ==
    Update(result, [ticker |-> Upper(ticker), timestamp |-> now])

\* The quote loop from provider n on: the result dict, or Raise.
RECURSIVE quote_scan(_, _, _, _, _)
quote_scan(ps, ups, exact, ticker, n) ==
    IF n > Len(ps) THEN EmptyDict
    ELSE LET quote == get_quote(ps[n], ups[n], exact, query_symbol(ticker))
         IN IF quote = Raise THEN Raise
            ELSE IF quote_iteration(EmptyDict, quote).brk
            THEN quote_iteration(EmptyDict, quote).result
            ELSE quote_scan(ps, ups, exact, ticker, n + 1)

\* The company-info loop from provider n on: the result dict, or Raise.
RECURSIVE info_scan(_, _, _, _, _, _)
info_scan(result, ps, ups, exact, ticker, n) ==
    IF n > Len(ps) THEN result
    ELSE LET company_info == get_company_info(ps[n], ups[n], exact, query_symbol(ticker))
         IN IF company_info = Raise THEN Raise
            ELSE info_scan(merge_company_info(result, company_info),
                           ps, ups, exact, ticker, n + 1)

\* StockDataFetcher.get_live_stock_price as a function of the provider list,
\* what the services hold, the ticker and the clock: a dict, PyNone or Raise.
get_live_stock_price(ps, ups, exact, ticker, now) ==
    IF ps = <<>> THEN PyNone
    ELSE LET quoted == quote_scan(ps, ups, exact, ticker, 1)
         IN IF quoted = Raise THEN Raise
            ELSE IF DOMAIN quoted = {} THEN PyNone
            ELSE LET merged == info_scan(quoted, ps, ups, exact, ticker, 1)
                 IN IF merged = Raise THEN Raise
                    ELSE attach_ticker_and_timestamp(merged, ticker, now)

\* ------------------------------------------------------------------------
\* State
\* ------------------------------------------------------------------------

VARIABLES
    providers,  \* self.providers
    ctor,       \* how the fetcher was built, and whether __init__ raised
    pc,         \* position of get_live_stock_price
    ticker,     \* its argument
    upstream,   \* what each provider's service holds during the call
    exact,      \* whether the services match symbols exactly
    i,          \* index of the provider the current loop is at
    result,     \* the local dict
    base,       \* result as it was when the quote loop ended
    trace,      \* provider calls made so far by the call
    ret,        \* value returned
    raised,     \* whether the call ended in an exception
    held,       \* the dict of an earlier call that the caller still holds
    probe,      \* a provider method called on its own: payload and outcome
    ui,         \* the last run of a page handler: input, fetches, rendering
    chat,       \* the last run of a chatbot or portfolio routine
    tab1,       \* the IPO calendar page of one session: notified_ipos, Slack
    sessions    \* SessionStateManager.DEFAULTS, the sessions, the list objects

vars == <<providers, ctor, pc, ticker, upstream, exact, i, result, base,
          trace, ret, raised, held, probe, ui, chat, tab1, sessions>>

\* The state of the chatbot routines, of the IPO page and of the sessions.
Elsewhere == <<chat, tab1, sessions>>

\* No provider method has been called on its own.
NoProbe == [op |-> "none", kind |-> "none", served |-> PyNone, out |-> PyNone]

\* No page handler has run.
NoUI == [path |-> "none", input |-> <<>>, parsed |-> <<>>, tickers |-> <<>>,
         queried |-> <<>>, data |-> EmptyDict, shown |-> <<>>]

\* No chatbot or portfolio routine has run.
NoChat == [op |-> "none", query |-> <<>>, out |-> PyNone]

\* The IPO page before its first run: no notified_ipos in the session
\* state, nothing delivered to Slack.
NoTab1 == [webhook |-> FALSE, has_notified |-> FALSE, notified_ipos |-> {},
           delivered |-> <<>>, listed |-> {}, tried |-> {}, failed |-> {}]

\* The process and its sessions: the list objects by identity, the class
\* attribute DEFAULTS (its chat_history_stock is a reference to a list),
\* each session's st.session_state, and the number of messages added.
\* Before any session DEFAULTS['chat_history_stock'] is list object 0,
\* which is empty, and no session has a session state.
NoSessions ==
    [heap |-> [o \in {0} |-> <<>>],
     DEFAULTS |-> [chat_history_stock |-> 0, selected_model |-> "gpt-4o-mini",
                   selected_provider |-> "OpenAI", show_chat |-> TRUE],
     session_state |-> EmptyDict,
     added |-> 0]

\* result = {} (line 321): every call builds a new dict, whatever dict an
\* earlier call handed to its caller.
result_at_entry_shared(earlier) ==
    IF earlier = PyNone THEN EmptyDict ELSE earlier

result_at_entry(earlier) == EmptyDict

\* "for provider in self.providers": the loop moves to the next provider.
next_index_stuck(n) == n

next_index(n) == n + 1

\* The second "for provider in self.providers" (line 334) starts over from
\* the first provider, wherever the quote loop stopped.
info_loop_resumes(n) == n

info_loop_start(n) == 1

NoTicker == <<>>

\* Provider lists of at most MaxProviders providers.
ProviderLists ==
    UNION {[1..n -> ProviderObjects] : n \in 0..MaxProviders}

\* The assignments of a service state to each provider of the list.
UpstreamsFor(ps) ==
    {ups \in [1..Len(ps) -> FinnhubUpstreams \cup YFinanceUpstreams] :
        \A n \in 1..Len(ps) : ups[n] \in UpstreamsOf(ps[n].kind)}

CallLocalsReset ==
    /\ ticker' = NoTicker
    /\ upstream' = <<>>
    /\ exact' = FALSE
    /\ i' = 0
    /\ result' = EmptyDict
    /\ base' = EmptyDict
    /\ trace' = <<>>
    /\ ret' = PyNone
    /\ raised' = FALSE

\* A fetcher whose provider list is any list of providers: self.providers is
\* a plain list attribute and the loops of get_live_stock_price run over
\* whatever it holds.
Init ==
    /\ providers \in ProviderLists
    /\ ctor = [via |-> "list", finnhub_key |-> NoKey, finnhub_ok |-> FALSE,
               yfinance_ok |-> FALSE, raised |-> FALSE]
    /\ pc = "idle"
    /\ ticker = NoTicker
    /\ upstream = <<>>
    /\ exact = FALSE
    /\ i = 0
    /\ result = EmptyDict
    /\ base = EmptyDict
    /\ trace = <<>>
    /\ ret = PyNone
    /\ raised = FALSE
    /\ held = PyNone
    /\ probe = NoProbe
    /\ ui = NoUI
    /\ chat = NoChat
    /\ tab1 = NoTab1
    /\ sessions = NoSessions

\* StockDataFetcher(finnhub_key)
Construct(finnhub_key, finnhub_ok, yfinance_ok) ==
    /\ pc = "idle"
    /\ LET built == StockDataFetcher_init(finnhub_key, finnhub_ok, yfinance_ok)
       IN /\ providers' = built.providers
          /\ ctor' = [via |-> "__init__", finnhub_key |-> finnhub_key,
                      finnhub_ok |-> finnhub_ok, yfinance_ok |-> yfinance_ok,
                      raised |-> built.raised]
    /\ UNCHANGED <<pc, held, probe, ui, Elsewhere>>
    /\ CallLocalsReset

Constructed == ~ctor.raised

\* get_live_stock_price(t) is entered: lines 317-321
Call(t, ups, ex) ==
    /\ pc = "idle"
    /\ Constructed
    /\ ticker' = t
    /\ upstream' = ups
    /\ exact' = ex
    /\ trace' = <<>>
    /\ result' = result_at_entry(held)
    /\ base' = EmptyDict
    /\ raised' = FALSE
    /\ ret' = PyNone
    /\ IF providers = <<>>
       THEN pc' = "done" /\ i' = 0
       ELSE pc' = "quote_loop" /\ i' = 1
    /\ UNCHANGED <<providers, ctor, held, probe, ui, Elsewhere>>

\* One pass of the loop of lines 324-328, and lines 330-331 when it ends.
QuoteStep ==
    /\ pc = "quote_loop"
    /\ LET quote == get_quote(providers[i], upstream[i], exact, query_symbol(ticker))
       IN /\ trace' = Append(trace, [op |-> "get_quote", provider |-> i,
                                     symbol |-> query_symbol(ticker)])
          /\ IF quote = Raise
             THEN /\ raised' = TRUE
                  /\ pc' = "done"
                  /\ UNCHANGED <<i, result, base>>
             ELSE LET it == quote_iteration(result, quote)
                  IN /\ result' = it.result
                     /\ raised' = FALSE
                     /\ IF it.brk \/ i = Len(providers)
                        THEN IF DOMAIN it.result = {}
                             THEN pc' = "done" /\ UNCHANGED <<i, base>>
                             ELSE /\ pc' = "info_loop"
                                  /\ i' = info_loop_start(i)
                                  /\ base' = it.result
                        ELSE /\ pc' = "quote_loop"
                             /\ i' = next_index(i)
                             /\ UNCHANGED base
    /\ ret' = PyNone
    /\ UNCHANGED <<providers, ctor, ticker, upstream, exact, held, probe, ui, Elsewhere>>

\* One pass of the loop of lines 334-340, and lines 342-345 when it ends.
InfoStep(now) ==
    /\ pc = "info_loop"
    /\ LET company_info == get_company_info(providers[i], upstream[i], exact, query_symbol(ticker))
       IN /\ trace' = Append(trace, [op |-> "get_company_info", provider |-> i,
                                     symbol |-> query_symbol(ticker)])
          /\ IF company_info = Raise
             THEN /\ raised' = TRUE
                  /\ pc' = "done"
                  /\ ret' = PyNone
                  /\ UNCHANGED <<i, result>>
             ELSE LET merged == merge_company_info(result, company_info)
                  IN /\ raised' = FALSE
                     /\ IF i = Len(providers)
                        THEN /\ result' = attach_ticker_and_timestamp(merged, ticker, now)
                             /\ ret' = attach_ticker_and_timestamp(merged, ticker, now)
                             /\ pc' = "done"
                             /\ UNCHANGED i
                        ELSE /\ result' = merged
                             /\ ret' = PyNone
                             /\ pc' = "info_loop"
                             /\ i' = next_index(i)
    /\ UNCHANGED <<providers, ctor, ticker, upstream, exact, base, held,
                   probe, ui, Elsewhere>>

\* The caller takes the returned value (or the exception); the call's locals
\* and the returned dict are dropped.
Return ==
    /\ pc = "done"
    /\ pc' = "idle"
    /\ CallLocalsReset
    /\ UNCHANGED <<providers, ctor, held, probe, ui, Elsewhere>>

Next ==
    \/ \E key \in FinnhubKeys, finnhub_ok \in BOOLEAN, yfinance_ok \in BOOLEAN :
          Construct(key, finnhub_ok, yfinance_ok)
    \/ /\ pc = "idle"
       /\ \E ups \in UpstreamsFor(providers) : \E t \in Tickers :
             \E ex \in SpellingOutcomes(t) : Call(t, ups, ex)
    \/ QuoteStep
    \/ \E now \in Times : InfoStep(now)
    \/ Return

Spec == Init /\ [][Next]_vars


\* ------------------------------------------------------------------------
\* What the providers of the current call answer
\* ------------------------------------------------------------------------

Positions == 1..Len(providers)

QuoteOf(n) == get_quote(providers[n], upstream[n], exact, query_symbol(ticker))

InfoOf(n) == get_company_info(providers[n], upstream[n], exact, query_symbol(ticker))

ServedTo(n) == Served(providers[n].kind, upstream[n], exact, query_symbol(ticker))

\* The service call behind provider n's get_quote raises.
QuoteCallThrows(n) ==
    IF providers[n].kind = "finnhub"
    THEN ServedTo(n).quote = Raise
    ELSE ServedTo(n).quote_info = Raise

HasQuote(n) == DictTruthy(QuoteOf(n))

Quoters == {n \in Positions : HasQuote(n)}

Least(S) == CHOOSE n \in S : \A m \in S : n <= m

Finished == pc = "done"

Populated == Finished /\ ret # PyNone

\* The clock reading of the finished call (any reading when nothing was
\* returned).
Stamp == IF ret = PyNone THEN 1 ELSE ret.timestamp

QuoteCalls == SelectSeq(trace, LAMBDA e : e.op = "get_quote")

InfoCalls == SelectSeq(trace, LAMBDA e : e.op = "get_company_info")

\* The two drivers of the aggregation agree: the value the stepwise call
\* returns is the value of get_live_stock_price.
StepsAgreeWithFunction ==
    (Finished /\ ~raised) =>
        ret = get_live_stock_price(providers, upstream, exact, ticker, Stamp)

\* ------------------------------------------------------------------------
\* C1
\* ------------------------------------------------------------------------

\* C1: whatever the ticker and whatever each provider's service does (returns
\* a quote, returns nothing, fails), get_live_stock_price never raises; a
\* finished call has returned None or a populated dict.
C1_NeverRaises ==
    /\ ~raised
    /\ Finished => (ret = PyNone \/ {"price", "ticker", "timestamp"} \subseteq DOMAIN ret)

\* A finished call in which one provider's service failed, another returned
\* nothing without failing, and a third supplied the quote.
C1_Witness ==
    /\ Populated
    /\ \E a, b \in Positions :
          /\ QuoteCallThrows(a)
          /\ ~QuoteCallThrows(b) /\ ~HasQuote(b)
          /\ a < Least(Quoters) /\ b < Least(Quoters)

\* ------------------------------------------------------------------------
\* C2
\* ------------------------------------------------------------------------

PriceFields == {"price", "previous_close", "change", "change_percent"}

\* C2: the price fields of a populated result are those of the quote of the
\* first provider of the list that has a quote, whatever later providers
\* would have quoted.
C2_FirstQuoteWins ==
    Populated =>
        /\ Quoters # {}
        /\ \A f \in PriceFields :
              f \in DOMAIN ret /\ ret[f] = QuoteOf(Least(Quoters))[f]

\* The second provider supplied the price although the third quotes another
\* price.
C2_Witness ==
    /\ Populated
    /\ Least(Quoters) = 2
    /\ 3 \in Quoters
    /\ QuoteOf(3).price # QuoteOf(2).price
    /\ ret.price = QuoteOf(2).price

\* ------------------------------------------------------------------------
\* C3
\* ------------------------------------------------------------------------

\* The service state in which a failing quote call answers "no data" instead.
QuoteFailureAsNoData(provider, up) ==
    IF provider.kind = "finnhub"
    THEN [up EXCEPT !.quote = IF @ = Raise THEN FinnhubQuoteUnknown ELSE @]
    ELSE [up EXCEPT !.quote_info = IF @ = Raise THEN EmptyDict ELSE @]

Scenario_A_B_C ==
    /\ Len(providers) = 3
    /\ QuoteCallThrows(1) /\ ~DictTruthy(InfoOf(1))
    /\ HasQuote(2) /\ QuoteOf(2).price = 150 /\ Get(InfoOf(2), "pe_ratio") = None
    /\ HasQuote(3) /\ QuoteOf(3).price = 155 /\ Get(InfoOf(3), "pe_ratio") = 302

\* C3: a quote call that fails inside a provider does not abort the
\* aggregation: the call returns what it would return had that provider
\* answered "no data"; with providers A (fails), B (150, no P/E) and
\* C (155, P/E 302) the result has B's price 150 and C's P/E 302.
C3_FaultIsolation ==
    /\ ~raised
    /\ Finished =>
          /\ ret = get_live_stock_price(
                      providers,
                      [n \in Positions |-> QuoteFailureAsNoData(providers[n], upstream[n])],
                      exact, ticker, Stamp)
          /\ Scenario_A_B_C => (ret # PyNone /\ ret.price = 150 /\ ret.pe_ratio = 302)

\* The scenario of the claim has run to its end.
C3_Witness ==
    /\ Finished
    /\ Scenario_A_B_C
    /\ ret # PyNone
    /\ ret.price = 150

\* ------------------------------------------------------------------------
\* C4
\* ------------------------------------------------------------------------

\* C4: a finished call returned None exactly when no provider of the list
\* has a quote; it did not raise.
C4_NotFoundIffNoQuote ==
    Finished => (~raised /\ (ret = PyNone <=> Quoters = {}))

\* A populated result although no provider's company info yields anything;
\* the quote came from the second provider.
C4_Witness ==
    /\ Populated
    /\ Least(Quoters) = 2
    /\ \A n \in Positions : ~DictTruthy(InfoOf(n))

\* ------------------------------------------------------------------------
\* C5
\* ------------------------------------------------------------------------

DescriptiveFields == {"market_cap", "pe_ratio", "name", "industry", "sector"}

\* The providers whose company info supplies a non-null value of field f.
Suppliers(f) ==
    {n \in Positions :
        /\ DictTruthy(InfoOf(n))
        /\ f \in DOMAIN InfoOf(n)
        /\ InfoOf(n)[f] # None}

\* C5: in a populated result every descriptive field that some provider's
\* company info supplies holds the value of the first provider, in list
\* order, that supplies it, whichever provider gave the quote.
C5_FieldLevelMerge ==
    Populated =>
        \A f \in DescriptiveFields :
            Suppliers(f) # {} =>
                f \in DOMAIN ret /\ ret[f] = InfoOf(Least(Suppliers(f)))[f]

\* The first provider gave the quote and no market cap, a later provider
\* gave the market cap the result carries; the first provider's company
\* info had the key with a null value.
C5_Witness ==
    /\ Populated
    /\ Least(Quoters) = 1
    /\ DictTruthy(InfoOf(1))
    /\ "market_cap" \in DOMAIN InfoOf(1)
    /\ Suppliers("market_cap") # {}
    /\ Least(Suppliers("market_cap")) > 1
    /\ ret.market_cap = InfoOf(Least(Suppliers("market_cap"))).market_cap

\* ------------------------------------------------------------------------
\* C6
\* ------------------------------------------------------------------------

\* C6: no step of the metadata scan changes or removes a field the result
\* already has: the fields of the adopted quote and the descriptive fields
\* taken from earlier providers keep their values.
C6_NoOverwrite ==
    [][pc = "info_loop" =>
          \A key \in DOMAIN result :
              key \in DOMAIN result' /\ result'[key] = result[key]]_vars

\* A finished metadata scan in which a provider's company info offered a
\* different value for a field the quote had set, and a later provider
\* offered a different value for a descriptive field already taken.
C6_Witness ==
    /\ Populated
    /\ \A key \in DOMAIN base : ret[key] = base[key]
    /\ \E n \in Positions : \E key \in DOMAIN base :
          /\ DictTruthy(InfoOf(n))
          /\ key \in DOMAIN InfoOf(n)
          /\ InfoOf(n)[key] \notin {None, base[key]}
    /\ \E f \in DescriptiveFields : \E n \in Suppliers(f) :
          /\ n > Least(Suppliers(f))
          /\ InfoOf(n)[f] # ret[f]

\* ------------------------------------------------------------------------
\* C7
\* ------------------------------------------------------------------------

\* C7: the m-th quote call of an aggregation goes to the m-th provider of
\* the list and is made only when every provider before it has no quote;
\* hence no quote call follows a provider that returned a quote.
C7_OrderedShortCircuit ==
    \A m \in 1..Len(QuoteCalls) :
        /\ QuoteCalls[m].provider = m
        /\ \A j \in 1..(m - 1) : ~HasQuote(j)

\* The second of three providers returned the quote, the third has one too
\* and was not asked for it.
C7_Witness ==
    /\ Populated
    /\ Len(providers) = 3
    /\ Least(Quoters) = 2
    /\ 3 \in Quoters
    /\ Len(QuoteCalls) = 2

\* ------------------------------------------------------------------------
\* C8
\* ------------------------------------------------------------------------

\* __init__ ran and could build neither provider.
NoProviderAvailable ==
    /\ ctor.via = "__init__"
    /\ ~(KeyTruthy(ctor.finnhub_key) /\ ctor.finnhub_ok)
    /\ ~ctor.yfinance_ok

\* C8 as claimed: when no provider can be built the construction fails, and
\* no call on such a fetcher ends in a "not found" result.
C8_FailsFastAtConstruction ==
    NoProviderAvailable => (ctor.raised /\ ~(Finished /\ ret = PyNone))

\* C8 as the code has it: when no provider can be built the construction
\* succeeds with an empty provider list, and every call on that fetcher
\* returns None without asking any provider.
C8_AbsorbedIntoNotFound ==
    NoProviderAvailable =>
        /\ ~ctor.raised
        /\ providers = <<>>
        /\ trace = <<>>
        /\ pc \in {"idle", "done"}
        /\ Finished => (ret = PyNone /\ ~raised)

\* A call on a fetcher built without any provider has returned None.
C8_Witness ==
    /\ NoProviderAvailable
    /\ Finished
    /\ ret = PyNone
    /\ ticker \in Tickers

\* ------------------------------------------------------------------------
\* C9
\* ------------------------------------------------------------------------

\* Position in the trace of the first call to provider n (0 when none).
FirstContact(n) ==
    IF \E k \in 1..Len(trace) : trace[k].provider = n
    THEN Least({k \in 1..Len(trace) : trace[k].provider = n})
    ELSE 0

\* C9: a populated result has the upper-case form of the ticker passed in,
\* which is "AAPL" for "aapl" and for "AAPL", and a clock reading as its
\* timestamp; a finished call, whatever the case of its ticker, has
\* contacted every provider of the list, in list order.
C9_TickerNormalised ==
    /\ Populated =>
          /\ {"ticker", "timestamp"} \subseteq DOMAIN ret
          /\ ret.ticker = Upper(ticker)
          /\ ret.ticker = Listed
          /\ ret.timestamp \in Times
    /\ (Finished /\ ~raised) =>
          /\ \A n \in Positions : FirstContact(n) > 0
          /\ \A n, m \in Positions : n < m => FirstContact(n) < FirstContact(m)

\* A populated result for the lower-case ticker.
C9_Witness ==
    /\ Populated
    /\ ticker = <<"a", "a", "p", "l">>
    /\ ret.ticker = <<"A", "A", "P", "L">>
    /\ Len(providers) >= 2

\* ------------------------------------------------------------------------
\* C10
\* ------------------------------------------------------------------------

\* C10 as claimed: a finished call returned what the call with any other
\* spelling of the ticker returns against the same services at the same
\* time, and asked the providers for the same symbol.
C10_CaseInsensitive ==
    (Finished /\ ~raised) =>
        \A other \in Tickers :
            Upper(other) = Upper(ticker) =>
                /\ \A k \in 1..Len(trace) : trace[k].symbol = query_symbol(other)
                /\ ret = get_live_stock_price(providers, upstream, exact, other, Stamp)


\* ------------------------------------------------------------------------
\* The providers called on their own
\* ------------------------------------------------------------------------

\* Outcomes of client.quote(ticker): the call fails, answers None, {} or a
\* payload without "pc", or answers a payload whose fields are as the service
\* reports them ("d" and "dp" are null when the service has no change to
\* report).
FinnhubQuotePayloads ==
    {Raise, PyNone, EmptyDict, [c |-> 150]}
    \cup {[c |-> c, pc |-> p, d |-> d, dp |-> q] :
             c \in {None, 0, -5, 150}, p \in {0, 100},
             d \in {None, 50}, q \in {None, 50}}

\* Outcomes of client.company_profile2(symbol=ticker)
FinnhubProfilePayloads ==
    {Raise, PyNone, EmptyDict, FinnhubNoPE.profile, FinnhubFull.profile}

\* Outcomes of client.company_basic_financials(ticker, 'all')
FinnhubMetricsPayloads ==
    {Raise, PyNone, EmptyDict, [metric |-> EmptyDict],
     FinnhubNoPE.metrics, FinnhubFull.metrics}

\* Outcomes of reading yf.Ticker(ticker).info
YFinanceInfoPayloads ==
    {Raise, PyNone, EmptyDict, [regularMarketPrice |-> 155, previousClose |-> 100]}
    \cup {[currentPrice |-> c, regularMarketPrice |-> r, previousClose |-> p,
           marketCap |-> m] :
             c \in {None, 0, -5, 150}, r \in {None, 155},
             p \in {None, 0, 100}, m \in {None, 5000000}}

AggregatorVars ==
    <<providers, ctor, pc, ticker, upstream, exact, i, result, base, trace,
      ret, raised, held>>

\* FinnhubProvider.get_quote(ticker), the service answering `quote`
FinnhubGetQuote(quote) ==
    /\ probe' = [op |-> "get_quote", kind |-> "finnhub",
                 served |-> [quote |-> quote],
                 out |-> FinnhubProvider_get_quote([quote |-> quote])]
    /\ UNCHANGED <<AggregatorVars, ui, Elsewhere>>

\* FinnhubProvider.get_company_info(ticker)
FinnhubGetCompanyInfo(profile, metrics) ==
    /\ probe' = [op |-> "get_company_info", kind |-> "finnhub",
                 served |-> [profile |-> profile, metrics |-> metrics],
                 out |-> FinnhubProvider_get_company_info(
                             [profile |-> profile, metrics |-> metrics])]
    /\ UNCHANGED <<AggregatorVars, ui, Elsewhere>>

\* YFinanceProvider.get_quote(ticker)
YFinanceGetQuote(info) ==
    /\ probe' = [op |-> "get_quote", kind |-> "yfinance",
                 served |-> [quote_info |-> info],
                 out |-> YFinanceProvider_get_quote([quote_info |-> info])]
    /\ UNCHANGED <<AggregatorVars, ui, Elsewhere>>

\* YFinanceProvider.get_company_info(ticker)
YFinanceGetCompanyInfo(info) ==
    /\ probe' = [op |-> "get_company_info", kind |-> "yfinance",
                 served |-> [company_info |-> info],
                 out |-> YFinanceProvider_get_company_info([company_info |-> info])]
    /\ UNCHANGED <<AggregatorVars, ui, Elsewhere>>

InitProviders == Init /\ providers = <<>>

NextProviders ==
    \/ \E quote \in FinnhubQuotePayloads : FinnhubGetQuote(quote)
    \/ \E profile \in FinnhubProfilePayloads, metrics \in FinnhubMetricsPayloads :
          FinnhubGetCompanyInfo(profile, metrics)
    \/ \E info \in YFinanceInfoPayloads : YFinanceGetQuote(info)
    \/ \E info \in YFinanceInfoPayloads : YFinanceGetCompanyInfo(info)

SpecProviders == InitProviders /\ [][NextProviders]_vars

\* The provider method returned a dict (neither None nor an exception).
ProbeGaveDict == probe.out # PyNone /\ probe.out # Raise

ProbeGaveQuote == probe.op = "get_quote" /\ ProbeGaveDict

\* C11: every quote a provider returns has a strictly positive price,
\* whatever the upstream service reports.
C11_PositivePrice ==
    ProbeGaveQuote => probe.out.price > 0

\* C12: in every quote with a previous close other than zero, change is
\* price - previous_close and change_percent is change / previous_close * 100.
C12_ChangeConsistent ==
    (ProbeGaveQuote /\ probe.out.previous_close \notin {0, None}) =>
        /\ probe.out.change = probe.out.price - probe.out.previous_close
        /\ probe.out.change_percent * probe.out.previous_close
               = probe.out.change * 100

\* The upstream call of the probed method failed, or the service answered
\* with nothing for the ticker: None, an empty payload, Finnhub's quote of an
\* unknown symbol (c = 0) or its empty "metric" block.
NothingUpstream ==
    LET nothing == {Raise, PyNone, EmptyDict}
    IN \/ /\ probe.op = "get_quote" /\ probe.kind = "finnhub"
          /\ \/ probe.served.quote \in nothing
             \/ Get(probe.served.quote, "c") = 0
       \/ /\ probe.op = "get_company_info" /\ probe.kind = "finnhub"
          /\ probe.served.profile \in nothing
          /\ probe.served.metrics \in nothing \cup {[metric |-> EmptyDict]}
       \/ /\ probe.op = "get_quote" /\ probe.kind = "yfinance"
          /\ probe.served.quote_info \in nothing
       \/ /\ probe.op = "get_company_info" /\ probe.kind = "yfinance"
          /\ probe.served.company_info \in nothing

\* C16 as stated: with nothing upstream, get_quote and get_company_info
\* return null and do not raise.
C16_NullOnNoData ==
    NothingUpstream => probe.out = PyNone

\* The returned value adds no field to a merge: None, {} or a dict whose
\* values are all None.
ContributesNothing(out) ==
    out # Raise /\ (out = PyNone \/ \A key \in DOMAIN out : out[key] = None)

\* C16, amended: with nothing upstream neither method raises; get_quote
\* returns null, and get_company_info returns null, an empty dict or a dict
\* whose values are all null.
C16_NothingOnNoData ==
    NothingUpstream =>
        /\ probe.out # Raise
        /\ probe.op = "get_quote" => probe.out = PyNone
        /\ probe.op = "get_company_info" => ContributesNothing(probe.out)

C16_Witness ==
    /\ NothingUpstream
    /\ probe.op = "get_company_info"
    /\ probe.kind = "yfinance"
    /\ probe.served.company_info = Raise
    /\ probe.out = EmptyDict


\* ------------------------------------------------------------------------
\* Fields no provider supplies
\* ------------------------------------------------------------------------

\* The descriptive fields for which no provider of the call supplies a
\* non-null value.
Unsupplied == {f \in DescriptiveFields : Suppliers(f) = {}}

\* C13: a descriptive field for which no provider supplied a non-null value
\* is absent from the populated result (no default, no substitute number),
\* and every descriptive field the result has holds a value some provider
\* supplied.
C13_NoPlaceholders ==
    Populated =>
        /\ \A f \in Unsupplied : f \notin DOMAIN ret
        /\ \A f \in DescriptiveFields \cap DOMAIN ret :
              \E n \in Suppliers(f) : ret[f] = InfoOf(n)[f]

\* A provider's company info has the key pe_ratio with a null value, no
\* provider supplies a P/E ratio, and the result has a name but no pe_ratio.
C13_Witness ==
    /\ Populated
    /\ "pe_ratio" \in Unsupplied
    /\ \E n \in Positions :
          DictTruthy(InfoOf(n)) /\ Get(InfoOf(n), "pe_ratio") = None
                                /\ "pe_ratio" \in DOMAIN InfoOf(n)
    /\ "name" \in DOMAIN ret
    /\ "pe_ratio" \notin DOMAIN ret


\* ------------------------------------------------------------------------
\* One fetcher over several calls
\* ------------------------------------------------------------------------

\* A fetcher as StockDataFetcher(finnhub_key) leaves it, before any call.
InitCalls ==
    /\ \E key \in FinnhubKeys, finnhub_ok \in BOOLEAN, yfinance_ok \in BOOLEAN :
          /\ providers = StockDataFetcher_init(key, finnhub_ok, yfinance_ok).providers
          /\ ctor = [via |-> "__init__", finnhub_key |-> key,
                     finnhub_ok |-> finnhub_ok, yfinance_ok |-> yfinance_ok,
                     raised |-> FALSE]
    /\ pc = "idle"
    /\ ticker = NoTicker
    /\ upstream = <<>>
    /\ exact = FALSE
    /\ i = 0
    /\ result = EmptyDict
    /\ base = EmptyDict
    /\ trace = <<>>
    /\ ret = PyNone
    /\ raised = FALSE
    /\ held = PyNone
    /\ probe = NoProbe
    /\ ui = NoUI
    /\ chat = NoChat
    /\ tab1 = NoTab1
    /\ sessions = NoSessions

\* "return result" (line 345) to a caller that keeps the dict: the call's
\* locals go, the returned dict stays with the caller.
ReturnHeld ==
    /\ pc = "done"
    /\ ~raised
    /\ pc' = "idle"
    /\ held' = ret
    /\ CallLocalsReset
    /\ UNCHANGED <<providers, ctor, probe, ui, Elsewhere>>

\* What a caller writes into a dict it was handed.
Scribble == [price |-> 0, sector |-> 99]

\* Between two calls the caller writes into the dict it holds.
MutateHeld ==
    /\ pc = "idle"
    /\ held # PyNone
    /\ held' = Update(held, Scribble)
    /\ held' # held
    /\ UNCHANGED <<providers, ctor, pc, ticker, upstream, exact, i, result,
                   base, trace, ret, raised, probe, ui, Elsewhere>>

NextCalls ==
    \/ /\ pc = "idle"
       /\ \E ups \in UpstreamsFor(providers) : \E t \in Tickers :
             \E ex \in SpellingOutcomes(t) : Call(t, ups, ex)
    \/ QuoteStep
    \/ \E now \in Times : InfoStep(now)
    \/ ReturnHeld
    \/ MutateHeld

SpecCalls == InitCalls /\ [][NextCalls]_vars

\* The provider list __init__ built from the constructor's arguments.
BuiltProviders ==
    StockDataFetcher_init(ctor.finnhub_key, ctor.finnhub_ok,
                          ctor.yfinance_ok).providers

\* C15: calls share no mutable state: the provider list stays as __init__
\* built it, each call starts from a new empty record, and the value a call
\* returns is a function of what the providers answer during that call,
\* whatever an earlier call returned and whatever the caller wrote into it.
C15_NoSharedState ==
    /\ providers = BuiltProviders
    /\ (pc = "quote_loop" /\ trace = <<>>) => result = EmptyDict
    /\ (Finished /\ ~raised) =>
          ret = get_live_stock_price(providers, upstream, exact, ticker, Stamp)

\* A call has finished with a populated result while the caller holds the
\* dict of an earlier call, which it has written into; the new result has
\* nothing of what was written.
C15_Witness ==
    /\ Populated
    /\ held # PyNone
    /\ Get(held, "sector") = Scribble.sector
    /\ Get(held, "price") = Scribble.price
    /\ ret.price # Scribble.price
    /\ "sector" \notin DOMAIN ret
    /\ Len(providers) = 2


\* ------------------------------------------------------------------------
\* The two scans of one call
\* ------------------------------------------------------------------------

Running == pc \in {"quote_loop", "info_loop"}

\* In the calls made so far every get_quote comes before every
\* get_company_info.
QuotesBeforeInfos ==
    \A a, b \in 1..Len(trace) :
        (trace[a].op = "get_quote" /\ trace[b].op = "get_company_info") => a < b

\* No provider has been asked the same thing twice.
AtMostOnceEach ==
    \A a, b \in 1..Len(trace) :
        (a # b /\ trace[a].op = trace[b].op) => trace[a].provider # trace[b].provider

\* The provider calls a call can still make: two per provider, less those
\* made.
CallsLeft == 2 * Len(providers) - Len(trace)

\* C17: one call is a single pass of two scans: every quote call precedes
\* every company-info call, each provider gets at most one quote call and at
\* most one company-info call, and the call terminates: each step of a call
\* in progress is one provider call that returns, it uses up one of the
\* calls left, which never go below zero, and it leaves the call in progress
\* at a provider of the list or finished.
C17_SinglePassTerminates ==
    [][/\ QuotesBeforeInfos'
       /\ AtMostOnceEach'
       /\ Running =>
             /\ CallsLeft' = CallsLeft - 1
             /\ CallsLeft' >= 0
             /\ Running' \/ Finished'
       /\ Running' => i' \in 1..Len(providers')]_vars

\* A finished call over three providers that made quote calls and then
\* company-info calls, six in all.
C17_Witness ==
    /\ Finished
    /\ Len(providers) = 3
    /\ Len(QuoteCalls) = 3
    /\ Len(InfoCalls) = 3
    /\ trace = QuoteCalls \o InfoCalls


\* C18: when a quote is found the company-info scan asks every provider of
\* the list exactly once and in list order, whichever provider gave the
\* quote: the m-th company-info call of a call goes to provider m, and a
\* populated result has come from as many company-info calls as there are
\* providers.
C18_InfoScanAsksAll ==
    /\ \A m \in 1..Len(InfoCalls) : InfoCalls[m].provider = m
    /\ Populated => Len(InfoCalls) = Len(providers)

\* Three providers: the first had no quote, the second gave it, the third
\* was never asked for a price; all three were asked for company info.
C18_Witness ==
    /\ Populated
    /\ Len(providers) = 3
    /\ ~HasQuote(1)
    /\ HasQuote(2)
    /\ [n \in 1..Len(QuoteCalls) |-> QuoteCalls[n].provider] = <<1, 2>>
    /\ [n \in 1..Len(InfoCalls) |-> InfoCalls[n].provider] = <<1, 2, 3>>


\* ------------------------------------------------------------------------
\* Construction
\* ------------------------------------------------------------------------

\* A key was given and FinnhubProvider(finnhub_key) went through.
FinnhubBuilt == KeyTruthy(ctor.finnhub_key) /\ ctor.finnhub_ok

\* YFinanceProvider() went through.
YFinanceBuilt == ctor.yfinance_ok

InList(provider) == \E n \in Positions : providers[n] = provider

\* C19: StockDataFetcher(finnhub_key) never raises and fixes the order:
\* Finnhub is in the list exactly when a key was given and its construction
\* succeeded, and is then first; yfinance is in the list exactly when its
\* construction succeeded, and is then last; each at most once; a Finnhub
\* failure leaves yfinance as the only provider.
C19_ConstructionFixesOrder ==
    ctor.via = "__init__" =>
        /\ ~ctor.raised
        /\ InList(FinnhubProvider) <=> FinnhubBuilt
        /\ InList(YFinanceProvider) <=> YFinanceBuilt
        /\ Len(providers) <= 2
        /\ FinnhubBuilt => providers[1] = FinnhubProvider
        /\ YFinanceBuilt => providers[Len(providers)] = YFinanceProvider
        /\ (~FinnhubBuilt /\ YFinanceBuilt) => providers = <<YFinanceProvider>>

\* Built with a key whose Finnhub construction failed while yfinance's
\* succeeded: yfinance is the only provider, and a call on that fetcher has
\* asked it.
C19_Witness ==
    /\ ctor.via = "__init__"
    /\ KeyTruthy(ctor.finnhub_key)
    /\ ~ctor.finnhub_ok
    /\ YFinanceBuilt
    /\ providers = <<YFinanceProvider>>
    /\ Finished
    /\ Len(trace) > 0


\* ------------------------------------------------------------------------
\* Strings
\* ------------------------------------------------------------------------

Digits == {"0", "1", "2", "3", "4", "5", "6", "7", "8", "9"}

IsUpperLetter(c) == \E n \in DOMAIN UpperLetters : UpperLetters[n] = c

IsLowerLetter(c) == \E n \in DOMAIN LowerLetters : LowerLetters[n] = c

IsLetter(c) == IsUpperLetter(c) \/ IsLowerLetter(c)

\* \w of the re module
IsWordChar(c) == IsLetter(c) \/ c \in Digits \/ c = "_"

IsSpace(c) == c = " "

\* str.lower()
LowerChar(c) ==
    IF IsUpperLetter(c)
    THEN LowerLetters[CHOOSE n \in DOMAIN UpperLetters : UpperLetters[n] = c]
    ELSE c

Lower(s) == [n \in DOMAIN s |-> LowerChar(s[n])]

\* str.strip()
RECURSIVE LStrip(_)
LStrip(s) == IF s # <<>> /\ IsSpace(Head(s)) THEN LStrip(Tail(s)) ELSE s

RECURSIVE RStrip(_)
RStrip(s) ==
    IF s # <<>> /\ IsSpace(s[Len(s)]) THEN RStrip(SubSeq(s, 1, Len(s) - 1)) ELSE s

Strip(s) == RStrip(LStrip(s))

\* The maximal runs of the characters of s marked in keep (keep[n] tells
\* whether s[n] belongs to a run), left to right, from position n on; cur
\* is the run being read.
RECURSIVE RunsFrom(_, _, _, _)
RunsFrom(s, keep, n, cur) ==
    IF n > Len(s) THEN (IF cur = <<>> THEN <<>> ELSE <<cur>>)
    ELSE IF keep[n] THEN RunsFrom(s, keep, n + 1, Append(cur, s[n]))
    ELSE (IF cur = <<>> THEN <<>> ELSE <<cur>>) \o RunsFrom(s, keep, n + 1, <<>>)

\* str.split(): the runs of non-blank characters
SplitBlank(s) == RunsFrom(s, [n \in DOMAIN s |-> ~IsSpace(s[n])], 1, <<>>)

\* The maximal runs of word characters (\w+)
WordRuns(s) == RunsFrom(s, [n \in DOMAIN s |-> IsWordChar(s[n])], 1, <<>>)

\* str.split(sep) for a one-character separator
RECURSIVE Split(_, _)
Split(s, sep) ==
    IF \E p \in DOMAIN s : s[p] = sep
    THEN LET p == CHOOSE p \in DOMAIN s :
                     s[p] = sep /\ \A q \in 1..(p - 1) : s[q] # sep
         IN <<SubSeq(s, 1, p - 1)>> \o Split(SubSeq(s, p + 1, Len(s)), sep)
    ELSE <<s>>

\* sep.join(parts)
RECURSIVE Join(_, _)
Join(parts, sep) ==
    IF parts = <<>> THEN <<>>
    ELSE IF Len(parts) = 1 THEN parts[1]
    ELSE parts[1] \o sep \o Join(Tail(parts), sep)

\* needle in haystack
Contains(haystack, needle) ==
    \E p \in 0..(Len(haystack) - Len(needle)) :
        SubSeq(haystack, p + 1, p + Len(needle)) = needle

\* re.findall(r'\b([A-Z]{2,5})\b', s): a match starts and ends at a word
\* boundary, so the matches are the maximal runs of word characters that
\* are two to five upper-case letters.
TickerShaped(run) ==
    Len(run) \in 2..5 /\ \A n \in DOMAIN run : IsUpperLetter(run[n])

FindTickers(s) == SelectSeq(WordRuns(s), TickerShaped)

\* ------------------------------------------------------------------------
\* TickerExtractor
\* ------------------------------------------------------------------------

COMPANY_MAP == <<
    [company |-> <<"a", "p", "p", "l", "e">>, ticker |-> <<"A", "A", "P", "L">>],
    [company |-> <<"m", "i", "c", "r", "o", "s", "o", "f", "t">>, ticker |-> <<"M", "S", "F", "T">>],
    [company |-> <<"g", "o", "o", "g", "l", "e">>, ticker |-> <<"G", "O", "O", "G", "L">>],
    [company |-> <<"a", "l", "p", "h", "a", "b", "e", "t">>, ticker |-> <<"G", "O", "O", "G", "L">>],
    [company |-> <<"a", "m", "a", "z", "o", "n">>, ticker |-> <<"A", "M", "Z", "N">>],
    [company |-> <<"t", "e", "s", "l", "a">>, ticker |-> <<"T", "S", "L", "A">>],
    [company |-> <<"m", "e", "t", "a">>, ticker |-> <<"M", "E", "T", "A">>],
    [company |-> <<"f", "a", "c", "e", "b", "o", "o", "k">>, ticker |-> <<"M", "E", "T", "A">>],
    [company |-> <<"n", "v", "i", "d", "i", "a">>, ticker |-> <<"N", "V", "D", "A">>],
    [company |-> <<"n", "e", "t", "f", "l", "i", "x">>, ticker |-> <<"N", "F", "L", "X">>],
    [company |-> <<"a", "m", "d">>, ticker |-> <<"A", "M", "D">>],
    [company |-> <<"i", "n", "t", "e", "l">>, ticker |-> <<"I", "N", "T", "C">>],
    [company |-> <<"i", "b", "m">>, ticker |-> <<"I", "B", "M">>],
    [company |-> <<"o", "r", "a", "c", "l", "e">>, ticker |-> <<"O", "R", "C", "L">>],
    [company |-> <<"s", "a", "l", "e", "s", "f", "o", "r", "c", "e">>, ticker |-> <<"C", "R", "M">>],
    [company |-> <<"a", "d", "o", "b", "e">>, ticker |-> <<"A", "D", "B", "E">>],
    [company |-> <<"p", "a", "y", "p", "a", "l">>, ticker |-> <<"P", "Y", "P", "L">>],
    [company |-> <<"q", "u", "a", "l", "c", "o", "m", "m">>, ticker |-> <<"Q", "C", "O", "M">>],
    [company |-> <<"c", "i", "s", "c", "o">>, ticker |-> <<"C", "S", "C", "O">>],
    [company |-> <<"j", "p", "m", "o", "r", "g", "a", "n">>, ticker |-> <<"J", "P", "M">>],
    [company |-> <<"j", "p", " ", "m", "o", "r", "g", "a", "n">>, ticker |-> <<"J", "P", "M">>],
    [company |-> <<"b", "a", "n", "k", " ", "o", "f", " ", "a", "m", "e", "r", "i", "c", "a">>, ticker |-> <<"B", "A", "C">>],
    [company |-> <<"w", "e", "l", "l", "s", " ", "f", "a", "r", "g", "o">>, ticker |-> <<"W", "F", "C">>],
    [company |-> <<"g", "o", "l", "d", "m", "a", "n", " ", "s", "a", "c", "h", "s">>, ticker |-> <<"G", "S">>],
    [company |-> <<"m", "o", "r", "g", "a", "n", " ", "s", "t", "a", "n", "l", "e", "y">>, ticker |-> <<"M", "S">>],
    [company |-> <<"c", "i", "t", "i", "g", "r", "o", "u", "p">>, ticker |-> <<"C">>],
    [company |-> <<"w", "a", "l", "m", "a", "r", "t">>, ticker |-> <<"W", "M", "T">>],
    [company |-> <<"t", "a", "r", "g", "e", "t">>, ticker |-> <<"T", "G", "T">>],
    [company |-> <<"c", "o", "s", "t", "c", "o">>, ticker |-> <<"C", "O", "S", "T">>],
    [company |-> <<"h", "o", "m", "e", " ", "d", "e", "p", "o", "t">>, ticker |-> <<"H", "D">>],
    [company |-> <<"n", "i", "k", "e">>, ticker |-> <<"N", "K", "E">>],
    [company |-> <<"s", "t", "a", "r", "b", "u", "c", "k", "s">>, ticker |-> <<"S", "B", "U", "X">>],
    [company |-> <<"m", "c", "d", "o", "n", "a", "l", "d", "s">>, ticker |-> <<"M", "C", "D">>],
    [company |-> <<"c", "o", "c", "a", " ", "c", "o", "l", "a">>, ticker |-> <<"K", "O">>],
    [company |-> <<"p", "e", "p", "s", "i">>, ticker |-> <<"P", "E", "P">>],
    [company |-> <<"p", "f", "i", "z", "e", "r">>, ticker |-> <<"P", "F", "E">>],
    [company |-> <<"j", "o", "h", "n", "s", "o", "n">>, ticker |-> <<"J", "N", "J">>],
    [company |-> <<"m", "e", "r", "c", "k">>, ticker |-> <<"M", "R", "K">>],
    [company |-> <<"e", "x", "x", "o", "n">>, ticker |-> <<"X", "O", "M">>],
    [company |-> <<"c", "h", "e", "v", "r", "o", "n">>, ticker |-> <<"C", "V", "X">>],
    [company |-> <<"b", "o", "e", "i", "n", "g">>, ticker |-> <<"B", "A">>],
    [company |-> <<"d", "i", "s", "n", "e", "y">>, ticker |-> <<"D", "I", "S">>],
    [company |-> <<"c", "o", "m", "c", "a", "s", "t">>, ticker |-> <<"C", "M", "C", "S", "A">>],
    [company |-> <<"v", "e", "r", "i", "z", "o", "n">>, ticker |-> <<"V", "Z">>],
    [company |-> <<"a", "t", "t">>, ticker |-> <<"T">>],
    [company |-> <<"f", "o", "r", "d">>, ticker |-> <<"F">>],
    [company |-> <<"g", "m">>, ticker |-> <<"G", "M">>],
    [company |-> <<"g", "e", "n", "e", "r", "a", "l", " ", "m", "o", "t", "o", "r", "s">>, ticker |-> <<"G", "M">>],
    [company |-> <<"u", "b", "e", "r">>, ticker |-> <<"U", "B", "E", "R">>],
    [company |-> <<"l", "y", "f", "t">>, ticker |-> <<"L", "Y", "F", "T">>],
    [company |-> <<"a", "i", "r", "b", "n", "b">>, ticker |-> <<"A", "B", "N", "B">>],
    [company |-> <<"s", "p", "o", "t", "i", "f", "y">>, ticker |-> <<"S", "P", "O", "T">>],
    [company |-> <<"s", "n", "a", "p">>, ticker |-> <<"S", "N", "A", "P">>],
    [company |-> <<"t", "w", "i", "t", "t", "e", "r">>, ticker |-> <<"T", "W", "T", "R">>],
    [company |-> <<"z", "o", "o", "m">>, ticker |-> <<"Z", "M">>],
    [company |-> <<"s", "h", "o", "p", "i", "f", "y">>, ticker |-> <<"S", "H", "O", "P">>],
    [company |-> <<"s", "q", "u", "a", "r", "e">>, ticker |-> <<"S", "Q">>],
    [company |-> <<"r", "o", "b", "i", "n", "h", "o", "o", "d">>, ticker |-> <<"H", "O", "O", "D">>] >>

\* cls.COMPANY_MAP.values()
COMPANY_MAP_values == {COMPANY_MAP[n].ticker : n \in DOMAIN COMPANY_MAP}

\* TickerExtractor.extract(user_input): the ticker, or NoTicker for None
extract(user_input) ==
    LET text == Strip(Lower(user_input))
        ticker_match == FindTickers(Upper(user_input))
        named == {n \in DOMAIN COMPANY_MAP : Contains(text, COMPANY_MAP[n].company)}
        words == SplitBlank(text)
        cleaned == [n \in DOMAIN words |-> SelectSeq(words[n], IsLowerLetter)]
        listed == {n \in DOMAIN cleaned :
                      /\ Len(cleaned[n]) \in 2..5
                      /\ Upper(cleaned[n]) \in COMPANY_MAP_values}
        text_clean == SelectSeq(text, IsLetter)
    IN IF ticker_match # <<>> THEN ticker_match[1]
       ELSE IF named # {} THEN COMPANY_MAP[Least(named)].ticker
       ELSE IF listed # {} THEN Upper(cleaned[Least(listed)])
       ELSE IF Len(text_clean) \in 2..5 THEN Upper(text_clean)
       ELSE NoTicker

\* ------------------------------------------------------------------------
\* The pages and the chat handler that look stocks up
\* ------------------------------------------------------------------------

\* Longest list of comma-separated fields typed into the compare tool, and
\* of words of a chat query.
MaxTickers == 6

AAPL == <<"A", "A", "P", "L">>

MSFT == <<"M", "S", "F", "T">>

\* The symbols the services may have data for.
UISymbols == {AAPL, MSFT}

\* What a service holds for ticker t when the symbols in `known` are the
\* ones it has data for.
ServiceFor(kind, known, t) ==
    IF t \in known
    THEN (IF kind = "finnhub" THEN FinnhubFull ELSE YFinanceFull)
    ELSE (IF kind = "finnhub" THEN FinnhubUnknown ELSE YFinanceUnknown)

\* chatbot.stock_fetcher.get_live_stock_price(t)
fetch(known, t, now) ==
    get_live_stock_price(
        providers,
        [n \in 1..Len(providers) |-> ServiceFor(providers[n].kind, known, t)],
        FALSE, t, now)

\* A Finnhub symbol with a price and no change reported.
FinnhubNoChange ==
    [quote |-> [c |-> 150, pc |-> 100, d |-> None, dp |-> None,
                h |-> 152, l |-> 99, o |-> 101],
     profile |-> FinnhubNoPE.profile,
     metrics |-> FinnhubNoPE.metrics]

\* What a service holds for ticker t: as ServiceFor, except that Finnhub
\* reports no change for the symbols in `flat`.
ServiceOf(kind, known, flat, t) ==
    IF kind = "finnhub" /\ t \in flat THEN FinnhubNoChange
    ELSE ServiceFor(kind, known, t)

\* self.stock_fetcher.get_live_stock_price(t)
chat_fetch(known, flat, t, now) ==
    get_live_stock_price(
        providers,
        [n \in 1..Len(providers) |-> ServiceOf(providers[n].kind, known, flat, t)],
        FALSE, t, now)

Range(seq) == {seq[n] : n \in DOMAIN seq}

\* Something rendered on the page or returned as the chat answer.
Item(kind, text, about, rows) ==
    [kind |-> kind, text |-> text, about |-> about, rows |-> rows]

\* The tickers of seq that have data, each once, in order of first
\* occurrence: the keys of the dict compare_stocks builds.
RECURSIVE compare_stocks_keys(_, _, _)
compare_stocks_keys(tickers, data, keys) ==
    IF tickers = <<>> THEN keys
    ELSE compare_stocks_keys(
             Tail(tickers), data,
             IF data[Head(tickers)] # PyNone /\ Head(tickers) \notin Range(keys)
             THEN Append(keys, Head(tickers)) ELSE keys)

\* StockComparator.generate_comparison_report(tickers), given what the
\* fetcher returns for each ticker: the message, or the report with one row
\* per key of the comparison, or Raise when a number of the price table is
\* None.
generate_comparison_report(tickers, data) ==
    LET keys == compare_stocks_keys(tickers, data, <<>>)
    IN IF keys = <<>>
       THEN Item("markdown", "Could not fetch data for comparison", NoTicker, <<>>)
       ELSE IF \E n \in DOMAIN keys :
                  \/ Get(data[keys[n]], "price") = None
                  \/ Get(data[keys[n]], "change") = None
                  \/ Get(data[keys[n]], "change_percent") = None
       THEN Raise
       ELSE Item("markdown", "Stock Comparison", NoTicker, keys)

\* The page after a handler ran: what was typed, the list parsed from it,
\* the list the comparison ran on, the tickers asked of the fetcher in
\* order, what the fetcher returned for each, and what was rendered.
Page(path, input, parsed, tickers, queried, data, shown) ==
    [path |-> path, input |-> input, parsed |-> parsed, tickers |-> tickers,
     queried |-> queried, data |-> data, shown |-> shown]

\* Quick lookup: "Get Price" with a non-empty input (lines 1388-1440)
QuickLookup(quick_ticker, known, now) ==
    /\ ui = NoUI
    /\ quick_ticker # <<>>
    /\ LET t == extract(quick_ticker)
           data == fetch(known, t, now)
       IN ui' = IF t = NoTicker
                THEN Page("quick_lookup", quick_ticker, <<>>, <<>>, <<>>, EmptyDict,
                          <<Item("error", "Could not identify ticker from input",
                                 NoTicker, <<>>)>>)
                ELSE Page("quick_lookup", quick_ticker, <<t>>, <<t>>, <<t>>,
                          [k \in {t} |-> data],
                          IF data # PyNone
                          THEN <<Item("metric", "Price", t, <<>>)>>
                          ELSE <<Item("error", "Could not fetch data for", t, <<>>)>>)
    /\ UNCHANGED <<AggregatorVars, probe, Elsewhere>>

popular_stocks == <<AAPL, MSFT, <<"G", "O", "O", "G", "L">>, <<"A", "M", "Z", "N">>, <<"T", "S", "L", "A">>, <<"N", "V", "D", "A">>>>

\* One of the popular-stock buttons (lines 1449-1458)
PopularStock(n, known, now) ==
    /\ ui = NoUI
    /\ LET t == popular_stocks[n]
           data == fetch(known, t, now)
       IN ui' = Page("popular_stock", t, <<t>>, <<t>>, <<t>>, [k \in {t} |-> data],
                     IF data # PyNone
                     THEN <<Item("metric", "Price", t, <<>>)>>
                     ELSE <<>>)
    /\ UNCHANGED <<AggregatorVars, probe, Elsewhere>>

\* Compare tool: "Compare" with a non-empty input (lines 1199-1210)
CompareTool(tickers_input, known, now) ==
    /\ ui = NoUI
    /\ tickers_input # <<>>
    /\ LET parsed == LET fields == Split(tickers_input, ",")
                     IN [n \in DOMAIN fields |-> Upper(Strip(fields[n]))]
           notice == IF Len(parsed) < 2
                     THEN <<Item("error", "Please enter at least 2 tickers to compare",
                                 NoTicker, <<>>)>>
                     ELSE IF Len(parsed) > 5
                     THEN <<Item("warning", "Comparing first 5 stocks only",
                                 NoTicker, <<>>)>>
                     ELSE <<>>
           tickers == IF Len(parsed) > 5 THEN SubSeq(parsed, 1, 5) ELSE parsed
           data == [t \in Range(tickers) |-> fetch(known, t, now)]
       IN ui' = Page("compare_tool", tickers_input, parsed, tickers, tickers, data,
                     Append(notice, generate_comparison_report(tickers, data)))
    /\ UNCHANGED <<AggregatorVars, probe, Elsewhere>>

Presets ==
    << <<<<"M", "E", "T", "A">>, AAPL, <<"A", "M", "Z", "N">>, <<"N", "F", "L", "X">>, <<"G", "O", "O", "G", "L">>>>,
       <<<<"J", "P", "M">>, <<"B", "A", "C">>, <<"W", "F", "C">>, <<"C">>, <<"G", "S">>>>,
       <<<<"T", "S", "L", "A">>, <<"F">>, <<"G", "M">>, <<"T", "M">>>> >>

\* One of the quick-comparison buttons (lines 1217-1236)
ComparePreset(n, known, now) ==
    /\ ui = NoUI
    /\ LET tickers == Presets[n]
           data == [t \in Range(tickers) |-> fetch(known, t, now)]
       IN ui' = Page("compare_preset", <<>>, tickers, tickers, tickers, data,
                     <<generate_comparison_report(tickers, data)>>)
    /\ UNCHANGED <<AggregatorVars, probe, Elsewhere>>

\* StockChatbot.handle_comparison_query(query) (lines 991-999); the string
\* it returns is the chat answer shown.
comparison_page(query, known, flat, now) ==
    LET parsed == FindTickers(query)
        tickers == SubSeq(parsed, 1, IF Len(parsed) > 5 THEN 5 ELSE Len(parsed))
        data == [t \in Range(tickers) |-> chat_fetch(known, flat, t, now)]
    IN IF Len(parsed) < 2
       THEN Page("chat_comparison", query, parsed, <<>>, <<>>, EmptyDict,
                 <<Item("answer", "Please provide at least 2 stock tickers to compare",
                        NoTicker, <<>>)>>)
       ELSE Page("chat_comparison", query, parsed, tickers, tickers, data,
                 <<generate_comparison_report(tickers, data)>>)

\* The string handle_comparison_query returns, or Raise
comparison_response(query, known, flat, now) ==
    comparison_page(query, known, flat, now).shown[1]

\* A comparison query in the chat, every known symbol with its change
\* reported.
handle_comparison_query(query, known, now) ==
    /\ ui = NoUI
    /\ ui' = comparison_page(query, known, {}, now)
    /\ UNCHANGED <<AggregatorVars, probe, Elsewhere>>

\* The script runs again: what the last run rendered is gone.
Rerun ==
    /\ ui # NoUI
    /\ ui' = NoUI
    /\ UNCHANGED <<AggregatorVars, probe, Elsewhere>>

\* What is typed into the quick lookup.
QuickInputs ==
    {AAPL, <<"a", "a", "p", "l">>, MSFT, <<"T", "e", "s", "l", "a">>, <<"a", "p", "p", "l", "e", " ", "i", "n", "c">>, <<"A", "-", "M", "-", "D">>, <<"a", "-", "b">>, <<"x">>,
     <<"$", "$">>, <<" ", "m", "s", "f", "t", " ">>}

\* What is typed into the compare tool: up to MaxTickers fields joined by
\* commas.
CompareFields == {AAPL, <<" ", "m", "s", "f", "t">>}

CompareInputs ==
    {Join(fields, <<",">>) :
        fields \in UNION {[1..n -> CompareFields] : n \in 1..MaxTickers}}

\* Chat queries: up to MaxTickers words separated by blanks.
QueryWords == {MSFT, <<"v", "s">>}

ChatQueries ==
    {Join(words, <<" ">>) :
        words \in UNION {[1..n -> QueryWords] : n \in 0..MaxTickers}}

\* The chatbot's fetcher, StockDataFetcher(config.FINNHUB_API_KEY), with
\* both client libraries installed; no handler has run.
InitUI ==
    /\ \E key \in FinnhubKeys :
          /\ providers = StockDataFetcher_init(key, TRUE, TRUE).providers
          /\ ctor = [via |-> "__init__", finnhub_key |-> key,
                     finnhub_ok |-> TRUE, yfinance_ok |-> TRUE,
                     raised |-> FALSE]
    /\ pc = "idle"
    /\ ticker = NoTicker
    /\ upstream = <<>>
    /\ exact = FALSE
    /\ i = 0
    /\ result = EmptyDict
    /\ base = EmptyDict
    /\ trace = <<>>
    /\ ret = PyNone
    /\ raised = FALSE
    /\ held = PyNone
    /\ probe = NoProbe
    /\ ui = NoUI
    /\ chat = NoChat
    /\ tab1 = NoTab1
    /\ sessions = NoSessions

NextUI ==
    \/ /\ ui = NoUI
       /\ \E known \in SUBSET UISymbols, now \in Times :
             \E quick_ticker \in QuickInputs : QuickLookup(quick_ticker, known, now)
    \/ /\ ui = NoUI
       /\ \E known \in SUBSET UISymbols, now \in Times :
             \E n \in DOMAIN popular_stocks : PopularStock(n, known, now)
    \/ /\ ui = NoUI
       /\ \E known \in SUBSET UISymbols, now \in Times :
             \E tickers_input \in CompareInputs : CompareTool(tickers_input, known, now)
    \/ /\ ui = NoUI
       /\ \E known \in SUBSET UISymbols, now \in Times :
             \E n \in DOMAIN Presets : ComparePreset(n, known, now)
    \/ /\ ui = NoUI
       /\ \E known \in SUBSET UISymbols, now \in Times :
             \E query \in ChatQueries : handle_comparison_query(query, known, now)
    \/ Rerun

SpecUI == InitUI /\ [][NextUI]_vars

\* The tickers the last handler asked the fetcher for and got None.
NotFound == {t \in Range(ui.queried) : ui.data[t] = PyNone}

\* Something rendered tells that data could not be fetched: for ticker t
\* ("Could not fetch data for <t>"), or for the comparison as a whole.
Signalled(t) ==
    \E n \in DOMAIN ui.shown :
        \/ ui.shown[n].text = "Could not fetch data for" /\ ui.shown[n].about = t
        \/ ui.shown[n].text = "Could not fetch data for comparison"

\* C14: on every lookup path (quick lookup, popular-stock buttons, stock
\* comparison) a ticker the aggregator reports as not found gets a visible
\* "could not fetch data" signal; it is never dropped from the output in
\* silence.
C14_NotFoundSignalled ==
    \A t \in NotFound : Signalled(t)

\* A comparison report was rendered or returned.
ReportShown ==
    \E n \in DOMAIN ui.shown :
        ui.shown[n].text \in {"Stock Comparison", "Could not fetch data for comparison"}

\* The user was told that at least two tickers are needed.
TooFewShown ==
    \E n \in DOMAIN ui.shown :
        ui.shown[n].text \in {"Please enter at least 2 tickers to compare",
                              "Please provide at least 2 stock tickers to compare"}

\* C20: on the chat path and on the compare-tool path a comparison is run
\* on two to five tickers only: an input with fewer than two tickers gets
\* the error or help message, no report and no provider query, and an input
\* with more than five is cut to its first five.
C20_TwoToFiveTickers ==
    ui.path \in {"compare_tool", "chat_comparison"} =>
        /\ Len(ui.parsed) < 2 =>
              TooFewShown /\ ~ReportShown /\ ui.queried = <<>>
        /\ Len(ui.parsed) > 5 => ui.tickers = SubSeq(ui.parsed, 1, 5)
        /\ ReportShown => Len(ui.tickers) \in 2..5


\* ------------------------------------------------------------------------
\* PortfolioBuilder
\* ------------------------------------------------------------------------

\* An amount of money as a fraction, so that dividing is exact.
Money(num, den) == [num |-> num, den |-> den]

SameMoney(a, b) == a.num * b.den = b.num * a.den

RISK_PROFILES ==
    ("Conservative" :>
        [description |-> "Low risk, steady returns",
         allocation |-> [stocks |-> 40, bonds |-> 50, cash |-> 10],
         expected_return |-> "4-6%", volatility |-> "Low"])
    @@ ("Moderate" :>
        [description |-> "Balanced growth and stability",
         allocation |-> [stocks |-> 60, bonds |-> 30, cash |-> 10],
         expected_return |-> "6-8%", volatility |-> "Medium"])
    @@ ("Aggressive" :>
        [description |-> "High growth potential, higher risk",
         allocation |-> [stocks |-> 80, bonds |-> 15, cash |-> 5],
         expected_return |-> "8-12%", volatility |-> "High"])
    @@ ("Very Aggressive" :>
        [description |-> "Maximum growth, maximum risk",
         allocation |-> [stocks |-> 95, bonds |-> 5, cash |-> 0],
         expected_return |-> "10-15%", volatility |-> "Very High"])

\* The keys of STOCK_CATEGORIES in the order of the dict, with their stocks.
STOCK_CATEGORIES ==
    << [category |-> "Large Cap Tech",
        stocks |-> <<"AAPL", "MSFT", "GOOGL", "AMZN", "META", "NVDA">>],
       [category |-> "Large Cap Value",
        stocks |-> <<"JPM", "JNJ", "PG", "KO", "WMT">>],
       [category |-> "Growth Stocks",
        stocks |-> <<"TSLA", "NFLX", "SHOP", "SPOT", "SQ">>],
       [category |-> "Dividend Stocks",
        stocks |-> <<"T", "VZ", "PFE", "XOM", "CVX">>],
       [category |-> "Financial",
        stocks |-> <<"JPM", "BAC", "GS", "MS", "C">>],
       [category |-> "Healthcare",
        stocks |-> <<"JNJ", "PFE", "UNH", "MRK", "ABBV">>] >>

\* list(cls.STOCK_CATEGORIES.keys())
CategoryNames == [n \in DOMAIN STOCK_CATEGORIES |-> STOCK_CATEGORIES[n].category]

\* cls.STOCK_CATEGORIES[category][:2], or nothing for an unknown category
FirstTwoOf(category) ==
    LET known == {n \in DOMAIN STOCK_CATEGORIES :
                     STOCK_CATEGORIES[n].category = category}
    IN IF known = {} THEN <<>>
       ELSE SubSeq(STOCK_CATEGORIES[CHOOSE n \in known : TRUE].stocks, 1, 2)

\* selected_stocks after the loop over include_categories
RECURSIVE select_stocks(_)
select_stocks(include_categories) ==
    IF include_categories = <<>> THEN <<>>
    ELSE FirstTwoOf(Head(include_categories))
             \o select_stocks(Tail(include_categories))

\* include_categories=None
NoCategories == <<"<None>">>

\* The positions dict: one key per distinct selected stock, each at the
\* per-position amount.
positions_of(selected_stocks, stock_per_position) ==
    [stock \in Range(selected_stocks) |-> stock_per_position]

\* PortfolioBuilder.build_portfolio: the portfolio, or Raise (ValueError)
build_portfolio(risk_profile, investment_amount, include_categories) ==
    IF risk_profile \notin DOMAIN RISK_PROFILES THEN Raise
    ELSE LET profile == RISK_PROFILES[risk_profile]
             allocation == profile.allocation
             stock_amount == Money(investment_amount * allocation.stocks, 100)
             bond_amount == Money(investment_amount * allocation.bonds, 100)
             cash_amount == Money(investment_amount * allocation.cash, 100)
             categories == IF include_categories = NoCategories
                           THEN SubSeq(CategoryNames, 1, 3)
                           ELSE include_categories
             selected_stocks == select_stocks(categories)
             stock_per_position ==
                 IF selected_stocks # <<>>
                 THEN Money(stock_amount.num, stock_amount.den * Len(selected_stocks))
                 ELSE Money(0, 1)
         IN [risk_profile |-> risk_profile,
             profile_details |-> profile,
             total_investment |-> investment_amount,
             selected_stocks |-> selected_stocks,
             allocation |->
                 [stocks |-> [amount |-> stock_amount,
                              percentage |-> allocation.stocks,
                              positions |-> positions_of(selected_stocks,
                                                         stock_per_position)],
                  bonds |-> [amount |-> bond_amount,
                             percentage |-> allocation.bonds],
                  cash |-> [amount |-> cash_amount,
                            percentage |-> allocation.cash]]]

\* ------------------------------------------------------------------------
\* StockChatbot.handle_portfolio_query
\* ------------------------------------------------------------------------

\* any(word in q for word in words)
AnyIn(q, words) == \E w \in words : Contains(q, w)

ConservativeWords == {<<"c", "o", "n", "s", "e", "r", "v", "a", "t", "i", "v", "e">>, <<"s", "a", "f", "e">>, <<"l", "o", "w", " ", "r", "i", "s", "k">>}

AggressiveWords == {<<"a", "g", "g", "r", "e", "s", "s", "i", "v", "e">>, <<"h", "i", "g", "h", " ", "r", "i", "s", "k">>, <<"g", "r", "o", "w", "t", "h">>}

VeryAggressiveWords == {<<"v", "e", "r", "y", " ", "a", "g", "g", "r", "e", "s", "s", "i", "v", "e">>, <<"m", "a", "x", "i", "m", "u", "m", " ", "g", "r", "o", "w", "t", "h">>}

\* The if / elif / elif of lines 924-930 on the lower-cased query.
detect_risk_profile(q) ==
    IF AnyIn(q, ConservativeWords) THEN "Conservative"
    ELSE IF AnyIn(q, AggressiveWords) THEN "Aggressive"
    ELSE IF AnyIn(q, VeryAggressiveWords) THEN "Very Aggressive"
    ELSE "Moderate"

DigitChars == <<"0", "1", "2", "3", "4", "5", "6", "7", "8", "9">>

DigitValue(c) == (CHOOSE n \in DOMAIN DigitChars : DigitChars[n] = c) - 1

\* float(s) of a string of digits; the empty string is a ValueError
RECURSIVE ParseDigits(_, _)
ParseDigits(s, acc) ==
    IF s = <<>> THEN acc
    ELSE ParseDigits(Tail(s), acc * 10 + DigitValue(Head(s)))

\* The investment amount of lines 933-937: the first run of digits and
\* commas of the query, commas removed, as a number; 10000 without a
\* match; Raise when nothing is left of the match.
extract_investment_amount(query) ==
    LET matches == RunsFrom(query,
                            [n \in DOMAIN query |->
                                query[n] \in Digits \/ query[n] = ","],
                            1, <<>>)
    IN IF matches = <<>> THEN 10000
       ELSE LET digits == SelectSeq(matches[1], LAMBDA c : c \in Digits)
            IN IF digits = <<>> THEN None ELSE ParseDigits(digits, 0)

\* StockChatbot.handle_portfolio_query(query, provider_name, model): what
\* the response is built from, or Raise
handle_portfolio_query(query) ==
    LET risk_profile == detect_risk_profile(Lower(query))
        investment_amount == extract_investment_amount(query)
    IN IF investment_amount = None THEN Raise
       ELSE [risk_profile |-> risk_profile,
             investment_amount |-> investment_amount,
             portfolio |-> build_portfolio(
                 risk_profile, investment_amount,
                 <<"Large Cap Tech", "Large Cap Value", "Dividend Stocks">>)]

\* ------------------------------------------------------------------------
\* The chatbot and the portfolio builder, one routine at a time
\* ------------------------------------------------------------------------

Ran(op, query, out) == [op |-> op, query |-> query, out |-> out]

\* The chatbot is handed a portfolio query.
HandlePortfolioQuery(query) ==
    /\ chat = NoChat
    /\ chat' = Ran("handle_portfolio_query", query, handle_portfolio_query(query))
    /\ UNCHANGED <<AggregatorVars, probe, ui, tab1, sessions>>

\* "Build My Portfolio" (lines 1289-1295): categories is the multiselect's
\* list, None when it is empty
BuildMyPortfolio(risk_profile, investment_amount, categories) ==
    /\ chat = NoChat
    /\ chat' = Ran("build_portfolio",
                   <<risk_profile, investment_amount, categories>>,
                   build_portfolio(risk_profile, investment_amount,
                                   IF categories # <<>> THEN categories
                                   ELSE NoCategories))
    /\ UNCHANGED <<AggregatorVars, probe, ui, tab1, sessions>>

\* The next message or click: the last routine's outcome is gone.
ChatDone ==
    /\ chat # NoChat
    /\ chat' = NoChat
    /\ UNCHANGED <<AggregatorVars, probe, ui, tab1, sessions>>

PortfolioQueries ==
    {<<"p", "o", "r", "t", "f", "o", "l", "i", "o">>, <<"B", "u", "i", "l", "d", " ", "a", " ", "c", "o", "n", "s", "e", "r", "v", "a", "t", "i", "v", "e", " ", "p", "o", "r", "t", "f", "o", "l", "i", "o">>,
     <<"a", "g", "g", "r", "e", "s", "s", "i", "v", "e", " ", "p", "o", "r", "t", "f", "o", "l", "i", "o">>, <<"v", "e", "r", "y", " ", "a", "g", "g", "r", "e", "s", "s", "i", "v", "e", " ", "p", "o", "r", "t", "f", "o", "l", "i", "o">>,
     <<"p", "o", "r", "t", "f", "o", "l", "i", "o", " ", "f", "o", "r", " ", "m", "a", "x", "i", "m", "u", "m", " ", "g", "r", "o", "w", "t", "h">>, <<"h", "i", "g", "h", " ", "r", "i", "s", "k", " ", "p", "o", "r", "t", "f", "o", "l", "i", "o">>,
     <<"g", "r", "o", "w", "t", "h", " ", "p", "o", "r", "t", "f", "o", "l", "i", "o">>, <<"s", "a", "f", "e", " ", "p", "o", "r", "t", "f", "o", "l", "i", "o">>, <<"l", "o", "w", " ", "r", "i", "s", "k">>,
     <<"v", "e", "r", "y", " ", "a", "g", "g", "r", "e", "s", "s", "i", "v", "e", " ", "b", "u", "t", " ", "s", "a", "f", "e">>, <<"i", "n", "v", "e", "s", "t", " ", "$", "5", ",", "0", "0", "0", " ", "a", "g", "g", "r", "e", "s", "s", "i", "v", "e">>,
     <<"i", "n", "v", "e", "s", "t", " ", "2", "0", "0", "0">>, <<"a", " ", "p", "o", "r", "t", "f", "o", "l", "i", "o", ",", " ", "p", "l", "e", "a", "s", "e">>}

\* The selections of the categories multiselect, each in the order of the
\* options.
CategorySelections ==
    {SelectSeq(CategoryNames, LAMBDA c : c \in chosen) :
        chosen \in SUBSET Range(CategoryNames)}

\* Values of the risk-profile selectbox and of the amount field.
RiskProfileNames == DOMAIN RISK_PROFILES

InvestmentAmounts == {1000, 10000}

\* ------------------------------------------------------------------------
\* ResponseTemplates and LLMManager
\* ------------------------------------------------------------------------

\* A template, with the question quoted under it where the template's text
\* has "**Your question:**"
Template(name, question) == [kind |-> "template", template |-> name, question |-> question]

\* ResponseTemplates.get_fallback_response(question)
get_fallback_response(question) ==
    LET q == Lower(question)
    IN IF Contains(q, <<"a", "i">>) /\ AnyIn(q, {<<"t", "r", "e", "n", "d">>, <<"f", "u", "t", "u", "r", "e">>, <<"i", "m", "p", "a", "c", "t">>})
       THEN Template("AI_TRENDS", <<>>)
       ELSE IF AnyIn(q, {<<"s", "t", "o", "c", "k">>, <<"s", "h", "a", "r", "e">>, <<"e", "q", "u", "i", "t", "y">>, <<"t", "i", "c", "k", "e", "r">>})
       THEN Template("STOCK_INSIGHTS", question)
       ELSE IF AnyIn(q, {<<"p", "o", "r", "t", "f", "o", "l", "i", "o">>, <<"i", "n", "v", "e", "s", "t">>, <<"a", "l", "l", "o", "c", "a", "t", "i", "o", "n">>, <<"d", "i", "v", "e", "r", "s", "i", "f">>})
       THEN Template("PORTFOLIO_STRATEGY", question)
       ELSE IF AnyIn(q, {<<"m", "a", "r", "k", "e", "t">>, <<"e", "c", "o", "n", "o", "m", "y">>, <<"r", "e", "c", "e", "s", "s", "i", "o", "n">>, <<"i", "n", "f", "l", "a", "t", "i", "o", "n">>, <<"f", "e", "d">>})
       THEN Template("MARKET_ANALYSIS", question)
       ELSE IF AnyIn(q, {<<"t", "r", "a", "d", "i", "n", "g">>, <<"d", "a", "y", " ", "t", "r", "a", "d", "e">>, <<"s", "w", "i", "n", "g">>, <<"o", "p", "t", "i", "o", "n", "s">>, <<"f", "u", "t", "u", "r", "e", "s">>})
       THEN Template("TRADING_CONCEPTS", <<>>)
       ELSE Template("General Financial Guidance", question)

\* The configuration and the environment of the LLM providers: the two API
\* keys, whether "from openai import OpenAI" and "import
\* google.generativeai" succeed, and whether the provider's API call
\* returns text.
LLMConfig(openai_key, gemini_key, openai_ok, genai_ok, replies) ==
    [OPENAI_API_KEY |-> openai_key, GEMINI_API_KEY |-> gemini_key,
     openai_ok |-> openai_ok, genai_ok |-> genai_ok, replies |-> replies]

\* OpenAIProvider.__init__
OpenAIProvider_init(api_key, model, openai_ok) ==
    IF validate_api_key(api_key) = Raise THEN Raise
    ELSE IF ~openai_ok THEN Raise
    ELSE [provider |-> "OpenAI", model |-> model]

\* GeminiProvider.__init__
GeminiProvider_init(api_key, model, genai_ok) ==
    IF validate_api_key(api_key) = Raise THEN Raise
    ELSE IF ~genai_ok THEN Raise
    ELSE [provider |-> "Gemini", model |-> model]

\* LLMManager.get_provider(provider_name, model): the provider, or PyNone
get_provider(provider_name, model, config) ==
    LET made == IF provider_name = "OpenAI"
                THEN OpenAIProvider_init(config.OPENAI_API_KEY, model, config.openai_ok)
                ELSE IF provider_name = "Gemini"
                THEN GeminiProvider_init(config.GEMINI_API_KEY, model, config.genai_ok)
                ELSE Raise
    IN IF made = Raise THEN PyNone ELSE made

\* llm.generate_response(prompt, system_prompt)
generate_response(llm, prompt, replies) ==
    IF replies
    THEN [kind |-> "llm", provider |-> llm.provider, prompt |-> prompt]
    ELSE [kind |-> "text", provider |-> llm.provider,
          text |-> "Failed to get response from"]

\* ------------------------------------------------------------------------
\* StockChatbot.detect_query_type and process_query
\* ------------------------------------------------------------------------

PortfolioWords ==
    {<<"p", "o", "r", "t", "f", "o", "l", "i", "o">>, <<"b", "u", "i", "l", "d">>, <<"c", "r", "e", "a", "t", "e", " ", "p", "o", "r", "t", "f", "o", "l", "i", "o">>, <<"i", "n", "v", "e", "s", "t">>, <<"a", "l", "l", "o", "c", "a", "t", "i", "o", "n">>,
     <<"d", "i", "v", "e", "r", "s", "i", "f">>, <<"r", "i", "s", "k", " ", "p", "r", "o", "f", "i", "l", "e">>}

ComparisonWords ==
    {<<"c", "o", "m", "p", "a", "r", "e">>, <<"v", "s">>, <<"v", "e", "r", "s", "u", "s">>, <<"b", "e", "t", "t", "e", "r">>, <<"d", "i", "f", "f", "e", "r", "e", "n", "c", "e", " ", "b", "e", "t", "w", "e", "e", "n">>}

PriceWords == {<<"p", "r", "i", "c", "e">>, <<"s", "t", "o", "c", "k">>, <<"q", "u", "o", "t", "e">>, <<"t", "r", "a", "d", "i", "n", "g", " ", "a", "t">>}

\* StockChatbot.detect_query_type(query)
detect_query_type_comparison_first(query) ==
    LET q == Lower(query)
    IN IF AnyIn(q, ComparisonWords) /\ Len(FindTickers(query)) >= 2
       THEN "comparison"
       ELSE IF AnyIn(q, PortfolioWords) THEN "portfolio"
       ELSE IF extract(query) # NoTicker /\ AnyIn(q, PriceWords) THEN "price"
       ELSE "general"

detect_query_type(query) ==
    LET q == Lower(query)
    IN IF AnyIn(q, PortfolioWords) THEN "portfolio"
       ELSE IF AnyIn(q, ComparisonWords) /\ Len(FindTickers(query)) >= 2
       THEN "comparison"
       ELSE IF extract(query) # NoTicker /\ AnyIn(q, PriceWords) THEN "price"
       ELSE "general"

\* The price_info block of lines 1021-1036: Raise when a number to format
\* is None (format_percentage and the :.2f fields)
price_info(stock_data) ==
    IF \/ Get(stock_data, "price") = None
       \/ Get(stock_data, "change_percent") = None
       \/ Get(stock_data, "previous_close") = None
    THEN Raise
    ELSE [price |-> stock_data["price"],
          change_percent |-> stock_data["change_percent"],
          previous_close |-> stock_data["previous_close"],
          pe_ratio |-> Get(stock_data, "pe_ratio"),
          market_cap |-> Get(stock_data, "market_cap"),
          volume |-> Get(stock_data, "volume"),
          timestamp |-> stock_data["timestamp"]]

\* enhanced_prompt: the query, with the price block and the news titles
\* when there are any
Prompt(user_query, info, news) ==
    [user_query |-> user_query, price_info |-> info, news |-> news]

\* What one run of process_query did: the query type, the calls made in
\* order, the ticker and the stock data of the price path, the provider,
\* and the response (Raise for an exception).
Processed(query_type, calls, t, stock_data, llm, response) ==
    [query_type |-> query_type, calls |-> calls, ticker |-> t,
     stock_data |-> stock_data, llm |-> llm, response |-> response]

\* The steps of process_query from get_provider on (lines 1048-1054)
ask_llm(query_type, calls, t, stock_data, prompt, user_query, provider_name, model, config) ==
    LET llm == get_provider(provider_name, model, config)
    IN IF llm # PyNone
       THEN Processed(query_type, calls \o <<"get_provider", "generate_response">>,
                      t, stock_data, llm,
                      generate_response(llm, prompt, config.replies))
       ELSE Processed(query_type, calls \o <<"get_provider", "get_fallback_response">>,
                      t, stock_data, llm, get_fallback_response(user_query))

\* StockChatbot.process_query(user_query, provider_name, model); brave is
\* "off" without a Brave client, "nothing" when it finds no news, "news"
\* when it finds some
process_query(user_query, provider_name, model, config, known, flat, brave, now) ==
    LET query_type == detect_query_type(user_query)
    IN IF query_type = "portfolio"
       THEN Processed(query_type, <<"handle_portfolio_query">>, NoTicker, PyNone,
                      PyNone, handle_portfolio_query(user_query))
       ELSE IF query_type = "comparison"
       THEN Processed(query_type, <<"handle_comparison_query">>, NoTicker, PyNone,
                      PyNone, comparison_response(user_query, known, flat, now))
       ELSE LET t == extract(user_query)
                stock_data == IF t # NoTicker THEN chat_fetch(known, flat, t, now)
                              ELSE PyNone
                looked == <<"extract">>
                          \o (IF t # NoTicker THEN <<"get_live_stock_price">>
                              ELSE <<>>)
            IN IF stock_data = Raise
               THEN Processed(query_type, looked, t, stock_data, PyNone, Raise)
               ELSE IF stock_data = PyNone
               THEN ask_llm(query_type, looked, t, stock_data,
                            Prompt(user_query, PyNone, FALSE),
                            user_query, provider_name, model, config)
               ELSE IF price_info(stock_data) = Raise
               THEN Processed(query_type, looked, t, stock_data, PyNone, Raise)
               ELSE ask_llm(query_type,
                            looked \o (IF brave # "off" THEN <<"get_stock_news">>
                                       ELSE <<>>),
                            t, stock_data,
                            Prompt(user_query, price_info(stock_data), brave = "news"),
                            user_query, provider_name, model, config)

\* The chat input handler's call of process_query (lines 1124-1129)
ProcessQuery(user_query, provider_name, model, config, known, flat, brave, now) ==
    /\ chat = NoChat
    /\ chat' = Ran("process_query",
                   [user_query |-> user_query, provider_name |-> provider_name,
                    config |-> config, known |-> known, flat |-> flat,
                    brave |-> brave],
                   process_query(user_query, provider_name, model, config,
                                 known, flat, brave, now))
    /\ UNCHANGED <<AggregatorVars, probe, ui, tab1, sessions>>

\* TickerExtractor.extract(user_input) on its own
Extract(user_input) ==
    /\ chat = NoChat
    /\ chat' = Ran("extract", user_input, extract(user_input))
    /\ UNCHANGED <<AggregatorVars, probe, ui, tab1, sessions>>

\* What users type to name a stock.
ExtractInputs ==
    {<<"a", "p", "p", "l", "e">>, <<"T", "e", "s", "l", "a", " ", "s", "t", "o", "c", "k">>, <<"M", "i", "c", "r", "o", "s", "o", "f", "t">>, <<"p", "r", "i", "c", "e", " ", "o", "f", " ", "A", "A", "P", "L">>, <<"A", "A", "P", "L">>,
     <<"n", "v", "i", "d", "i", "a">>, <<"m", "s", "f", "t">>, <<"a", "m", "a", "z", "o", "n", " ", "s", "h", "a", "r", "e", "s">>}

\* Chat messages.
UserQueries ==
    {<<"p", "r", "i", "c", "e", " ", "o", "f", " ", "A", "A", "P", "L">>, <<"A", "A", "P", "L", " ", "s", "t", "o", "c", "k">>, <<"M", "S", "F", "T", " ", "q", "u", "o", "t", "e">>, <<"c", "o", "m", "p", "a", "r", "e", " ", "A", "A", "P", "L", " ", "v", "s", " ", "M", "S", "F", "T">>,
     <<"c", "o", "m", "p", "a", "r", "e", " ", "A", "A", "P", "L">>, <<"i", "s", " ", "M", "S", "F", "T", " ", "b", "e", "t", "t", "e", "r", " ", "t", "h", "a", "n", " ", "A", "A", "P", "L">>,
     <<"b", "u", "i", "l", "d", " ", "p", "o", "r", "t", "f", "o", "l", "i", "o", " ", "A", "A", "P", "L", " ", "v", "s", " ", "M", "S", "F", "T", " ", "s", "t", "o", "c", "k">>, <<"i", "n", "v", "e", "s", "t", " ", "i", "n", " ", "A", "A", "P", "L", " ", "v", "s", " ", "M", "S", "F", "T">>,
     <<"a", " ", "p", "o", "r", "t", "f", "o", "l", "i", "o", ",", " ", "p", "l", "e", "a", "s", "e">>, <<"w", "h", "a", "t", " ", "i", "s", " ", "i", "n", "f", "l", "a", "t", "i", "o", "n">>, <<"A", "I", " ", "f", "u", "t", "u", "r", "e">>,
     <<"h", "e", "l", "l", "o", " ", "t", "h", "e", "r", "e">>, <<"o", "p", "t", "i", "o", "n", "s", " ", "t", "r", "a", "d", "i", "n", "g">>}

\* The provider names process_query is called with: the two of the
\* selectbox and one get_provider does not know.
ProviderNames == {"OpenAI", "Gemini", "Claude"}

LLMConfigs ==
    {LLMConfig("token", "token", TRUE, TRUE, TRUE),
     LLMConfig(NoKey, "", TRUE, TRUE, TRUE),
     LLMConfig("token", "token", FALSE, FALSE, TRUE),
     LLMConfig("token", "token", TRUE, TRUE, FALSE)}

\* The symbols the services have data for, and those of them Finnhub
\* reports no change for.
StockWorlds ==
    {[known |-> known, flat |-> flat] :
        known \in {{}, {AAPL}, UISymbols}, flat \in {{}, {AAPL}}}

BraveOutcomes == {"off", "nothing", "news"}

\* The chatbot as InitUI constructs it; no routine has run.
InitChat == InitUI

NextChat ==
    \/ /\ chat = NoChat
       /\ \E query \in PortfolioQueries : HandlePortfolioQuery(query)
    \/ /\ chat = NoChat
       /\ \E risk_profile \in RiskProfileNames, investment_amount \in InvestmentAmounts :
             \E categories \in CategorySelections :
                BuildMyPortfolio(risk_profile, investment_amount, categories)
    \/ /\ chat = NoChat
       /\ \E user_input \in ExtractInputs : Extract(user_input)
    \/ /\ chat = NoChat
       /\ \E user_query \in UserQueries, provider_name \in ProviderNames,
             config \in LLMConfigs, world \in StockWorlds, brave \in BraveOutcomes :
             ProcessQuery(user_query, provider_name, "gpt-4o-mini", config,
                          world.known, world.flat \cap world.known, brave, 1)
    \/ ChatDone

SpecChat == InitChat /\ [][NextChat]_vars

\* The risk profile the keywords of a query stand for.
ProfileNamed(q) ==
    IF AnyIn(q, ConservativeWords) THEN "Conservative"
    ELSE IF AnyIn(q, VeryAggressiveWords) THEN "Very Aggressive"
    ELSE IF AnyIn(q, AggressiveWords) THEN "Aggressive"
    ELSE "Moderate"

\* C21: handle_portfolio_query builds the portfolio for 'Very Aggressive'
\* when the query contains 'very aggressive' or 'maximum growth' (and no
\* conservative keyword), for 'Aggressive' when it contains 'aggressive',
\* 'high risk' or 'growth' alone, for 'Conservative' when it contains
\* 'conservative', 'safe' or 'low risk', and for 'Moderate' otherwise.
C21_RiskProfileByKeyword ==
    (chat.op = "handle_portfolio_query" /\ chat.out # Raise)
        => /\ chat.out.risk_profile = ProfileNamed(Lower(chat.query))
           /\ chat.out.portfolio.risk_profile = ProfileNamed(Lower(chat.query))

\* The tickers of the COMPANY_MAP companies the input names.
NamedTickers(user_input) ==
    {COMPANY_MAP[n].ticker :
        n \in {k \in DOMAIN COMPANY_MAP :
                  Contains(Lower(user_input), COMPANY_MAP[k].company)}}

\* C22: extract maps natural-language input to a ticker: an input that
\* names a COMPANY_MAP company ('apple', 'Tesla stock', 'Microsoft') gives
\* the mapped ticker, and an input with an explicit ticker ('price of
\* AAPL') gives that ticker rather than another word.
C22_NaturalLanguageTicker ==
    chat.op = "extract"
        => /\ FindTickers(chat.query) # <<>>
                => chat.out \in Range(FindTickers(chat.query))
           /\ (FindTickers(chat.query) = <<>> /\ NamedTickers(chat.query) # {})
                => chat.out \in NamedTickers(chat.query)

\* The query of the last process_query run has one of the words.
QueryHas(words) == AnyIn(Lower(chat.query.user_query), words)

\* The query has a comparison keyword and at least two ticker tokens.
QueryCompares ==
    QueryHas(ComparisonWords) /\ Len(FindTickers(chat.query.user_query)) >= 2

\* The query has an extractable ticker and a price keyword.
QueryPrices ==
    extract(chat.query.user_query) # NoTicker /\ QueryHas(PriceWords)

LLMCalls == {"get_provider", "generate_response"}

\* C24: a query with a portfolio keyword is 'portfolio' even with
\* comparison or price keywords; otherwise one with a comparison keyword
\* and two ticker tokens or more is 'comparison'; otherwise one with an
\* extractable ticker and a price keyword is 'price'; otherwise it is
\* 'general'; and process_query answers 'portfolio' and 'comparison'
\* queries without any LLM call.
C24_RoutingPrecedence ==
    chat.op = "process_query"
        => /\ QueryHas(PortfolioWords) => chat.out.query_type = "portfolio"
           /\ (~QueryHas(PortfolioWords) /\ QueryCompares)
                => chat.out.query_type = "comparison"
           /\ (~QueryHas(PortfolioWords) /\ ~QueryCompares /\ QueryPrices)
                => chat.out.query_type = "price"
           /\ (~QueryHas(PortfolioWords) /\ ~QueryCompares /\ ~QueryPrices)
                => chat.out.query_type = "general"
           /\ chat.out.query_type \in {"portfolio", "comparison"}
                => /\ Range(chat.out.calls) \cap LLMCalls = {}
                   /\ chat.out.llm = PyNone

\* A query with portfolio, comparison and price keywords and two tickers
\* was processed as a portfolio query.
C24_Witness ==
    /\ chat.op = "process_query"
    /\ QueryHas(PortfolioWords) /\ QueryCompares /\ QueryPrices
    /\ chat.out.query_type = "portfolio"
    /\ chat.out.calls = <<"handle_portfolio_query">>

\* The sum of the amounts of the positions with the given keys.
RECURSIVE SumOf(_, _)
SumOf(positions, keys) ==
    IF keys = {} THEN Money(0, 1)
    ELSE LET k == CHOOSE k \in keys : TRUE
             rest == SumOf(positions, keys \ {k})
         IN IF rest.num = 0 THEN positions[k]
            ELSE IF rest.den = positions[k].den
            THEN Money(rest.num + positions[k].num, rest.den)
            ELSE Money(rest.num * positions[k].den + positions[k].num * rest.den,
                       rest.den * positions[k].den)

\* C25: for every risk profile and every selection of categories with at
\* least one stock, the amounts of the positions sum to the stocks amount
\* (investment x stocks % / 100), also when two selected categories have
\* a ticker in common.
C25_PositionsSumToStocks ==
    (/\ chat.op = "build_portfolio"
     /\ chat.out # Raise
     /\ chat.out.selected_stocks # <<>>)
        => LET stocks == chat.out.allocation.stocks
           IN /\ SameMoney(stocks.amount,
                           Money(chat.out.total_investment * stocks.percentage, 100))
              /\ SameMoney(SumOf(stocks.positions, DOMAIN stocks.positions),
                           stocks.amount)

\* The selected provider cannot be initialised: its key is missing, its
\* import fails, or its name is not a provider's.
Uninitialisable(provider_name, config) ==
    \/ provider_name = "OpenAI"
          /\ (~KeyTruthy(config.OPENAI_API_KEY) \/ ~config.openai_ok)
    \/ provider_name = "Gemini"
          /\ (~KeyTruthy(config.GEMINI_API_KEY) \/ ~config.genai_ok)
    \/ provider_name \notin {"OpenAI", "Gemini"}

\* C26: when the selected LLM provider cannot be initialised, get_provider
\* returns None without raising and process_query, for a query it does
\* not hand to the portfolio or the comparison handler, returns the
\* template fallback response for the user's question; a ticker that is
\* extracted and not found does not stop the query from being answered.
C26_FallbackWithoutProvider ==
    (/\ chat.op = "process_query"
     /\ chat.out.query_type \in {"price", "general"})
        => /\ Uninitialisable(chat.query.provider_name, chat.query.config)
                => /\ chat.out.llm = PyNone
                   /\ chat.out.response = get_fallback_response(chat.query.user_query)
           /\ (chat.out.ticker # NoTicker /\ chat.out.stock_data = PyNone)
                => /\ "get_provider" \in Range(chat.out.calls)
                   /\ chat.out.response # Raise

\* ------------------------------------------------------------------------
\* The IPO calendar's Slack notifications (tab1.py)
\* ------------------------------------------------------------------------

\* Longest ipoCalendar list the service returns.
MaxIPOs == 2

\* No fetcher is in use and no tab3 routine has run.
Tab3Idle ==
    /\ providers = <<>>
    /\ ctor = [via |-> "list", finnhub_key |-> NoKey, finnhub_ok |-> FALSE,
               yfinance_ok |-> FALSE, raised |-> FALSE]
    /\ pc = "idle"
    /\ ticker = NoTicker
    /\ upstream = <<>>
    /\ exact = FALSE
    /\ i = 0
    /\ result = EmptyDict
    /\ base = EmptyDict
    /\ trace = <<>>
    /\ ret = PyNone
    /\ raised = FALSE
    /\ held = PyNone
    /\ probe = NoProbe
    /\ ui = NoUI
    /\ chat = NoChat

\* The dates of the calendar, in increasing order.
IPODates == <<"2026-11-05", "2026-11-09">>

\* The rows the IPO calendar may list.
IPOs ==
    {[symbol |-> "ACME", date |-> IPODates[1]],
     [symbol |-> "BETA", date |-> IPODates[1]],
     [symbol |-> "ACME", date |-> IPODates[2]]}

\* What finnhub_client.ipo_calendar(...) returns as 'ipoCalendar'.
IPOLists == UNION {[1..n -> IPOs] : n \in 0..MaxIPOs}

\* ipo_id = f"{row['symbol']}_{row['date']}"
ipo_id(row) == row.symbol \o "_" \o row.date

DateRank(date) == CHOOSE n \in DOMAIN IPODates : IPODates[n] = date

\* The list with the row inserted after the rows of its date and of
\* earlier dates.
RECURSIVE InsertByDate(_, _)
InsertByDate(sorted, row) ==
    IF sorted = <<>> THEN <<row>>
    ELSE IF DateRank(row.date) < DateRank(Head(sorted).date)
    THEN <<row>> \o sorted
    ELSE <<Head(sorted)>> \o InsertByDate(Tail(sorted), row)

\* sort_values('date')
RECURSIVE sort_values(_)
sort_values(rows) ==
    IF rows = <<>> THEN <<>>
    ELSE InsertByDate(sort_values(SubSeq(rows, 1, Len(rows) - 1)), rows[Len(rows)])

\* .head(5)
head(rows) == SubSeq(rows, 1, IF Len(rows) > 5 THEN 5 ELSE Len(rows))

\* What happens to one call of send_slack_notification: the POST is
\* answered with status 200, with another status, or an exception is
\* raised in the function.
SlackOutcomes == {"200", "500", "exception"}

\* send_slack_notification(webhook_url, ipo_data): True or False
send_slack_notification_true(outcome) == TRUE

send_slack_notification(outcome) == outcome = "200"

\* The IPO page's state: whether SLACK_WEBHOOK_URL is set, the session's
\* notified_ipos (once it exists), the ids of the messages Slack accepted
\* in order, and of the last run the ids listed, those a send was made for
\* and those whose send returned False.
Tab1(webhook, has_notified, notified_ipos, delivered, listed, tried, failed) ==
    [webhook |-> webhook, has_notified |-> has_notified,
     notified_ipos |-> notified_ipos, delivered |-> delivered,
     listed |-> listed, tried |-> tried, failed |-> failed]

\* The notification loop of lines 384-401 from row n on; outcomes[n] is
\* what happens to the send for row n if one is made.
RECURSIVE notify(_, _, _, _)
notify(rows, outcomes, n, t) ==
    IF n > Len(rows) THEN t
    ELSE LET id == ipo_id(rows[n])
         IN IF id \in t.notified_ipos THEN notify(rows, outcomes, n + 1, t)
            ELSE IF send_slack_notification(outcomes[n])
            THEN notify(rows, outcomes, n + 1,
                        [t EXCEPT !.notified_ipos = @ \cup {id},
                                  !.delivered = IF outcomes[n] = "200"
                                                THEN Append(@, id) ELSE @,
                                  !.tried = @ \cup {id},
                                  !.failed = @ \ {id}])
            ELSE notify(rows, outcomes, n + 1,
                        [t EXCEPT !.tried = @ \cup {id},
                                  !.failed = @ \cup {id}])

\* One run of the page in the session, the calendar answering ipo_list
\* (lines 345-421)
RenderIPOs(ipo_list, outcomes) ==
    LET display_df == head(sort_values(ipo_list))
        started == Tab1(tab1.webhook, TRUE, tab1.notified_ipos, tab1.delivered,
                        {ipo_id(display_df[n]) : n \in DOMAIN display_df}, {}, {})
    IN /\ tab1' = IF ipo_list # <<>> /\ tab1.webhook
                  THEN notify(display_df, outcomes, 1, started)
                  ELSE started
       /\ UNCHANGED <<AggregatorVars, probe, ui, chat, sessions>>

\* One run of the page in which finnhub_client.ipo_calendar raises
RenderIPOsFails ==
    /\ tab1' = Tab1(tab1.webhook, TRUE, tab1.notified_ipos, tab1.delivered,
                    {}, {}, {})
    /\ UNCHANGED <<AggregatorVars, probe, ui, chat, sessions>>

\* A session opens the page; SLACK_WEBHOOK_URL is set or not.
InitIPO ==
    /\ Tab3Idle
    /\ sessions = NoSessions
    /\ \E webhook \in BOOLEAN : tab1 = [NoTab1 EXCEPT !.webhook = webhook]

NextIPO ==
    \/ \E ipo_list \in IPOLists :
          \E outcomes \in [DOMAIN ipo_list -> SlackOutcomes] :
             RenderIPOs(ipo_list, outcomes)
    \/ RenderIPOsFails

SpecIPO == InitIPO /\ [][NextIPO]_vars

\* The ids of the messages Slack accepted.
Delivered(t) == Range(t.delivered)

\* C23: within one session an IPO (symbol and date) is sent to Slack at
\* most once: an id is added to notified_ipos only after a successful
\* send, an id in notified_ipos is never sent again on a later rerun, the
\* set only grows, and a failed send leaves the set unchanged, so that the
\* IPO is retried on the next rerun (that lists it).
C23_NotifiedAtMostOnce ==
    [][LET sent == {tab1'.delivered[n] :
                       n \in (Len(tab1.delivered) + 1)..Len(tab1'.delivered)}
       IN /\ SubSeq(tab1'.delivered, 1, Len(tab1.delivered)) = tab1.delivered
          /\ Cardinality(Delivered(tab1')) = Len(tab1'.delivered)
          /\ tab1'.notified_ipos = tab1.notified_ipos \cup sent
          /\ sent \cap tab1.notified_ipos = {}
          /\ tab1'.tried \cap tab1.notified_ipos = {}
          /\ tab1'.failed \cap tab1'.notified_ipos = {}
          /\ (tab1.failed \cap tab1'.listed) \subseteq tab1'.tried
      ]_vars

\* Slack has accepted two IPOs; the last run listed a notified IPO and
\* made no send for it, and the one send it made, for another IPO, failed.
C23_Witness ==
    /\ Len(tab1.delivered) >= 2
    /\ tab1.listed \cap tab1.notified_ipos # {}
    /\ tab1.failed # {}
    /\ tab1.tried = tab1.failed

\* ------------------------------------------------------------------------
\* SessionStateManager
\* ------------------------------------------------------------------------

\* Most messages added in all, and most list objects created.
MaxMessages == 3

MaxLists == 3

\* The browser sessions served by the process.
Sessions == {"s1", "s2"}

\* SessionStateManager.initialize() in session s
Initialize(s) ==
    /\ LET state == IF s \in DOMAIN sessions.session_state
                    THEN sessions.session_state[s] ELSE EmptyDict
           filled == [key \in DOMAIN sessions.DEFAULTS |->
                         IF key \in DOMAIN state THEN state[key]
                         ELSE sessions.DEFAULTS[key]]
       IN sessions' = [sessions EXCEPT !.session_state =
                          [t \in DOMAIN @ \cup {s} |-> IF t = s THEN filled ELSE @[t]]]
    /\ UNCHANGED <<AggregatorVars, probe, ui, chat, tab1>>

\* SessionStateManager.add_message(role, content) in session s: append to
\* the list the session's chat_history_stock refers to
AddMessage(s, role, content) ==
    /\ s \in DOMAIN sessions.session_state
    /\ sessions.added < MaxMessages
    /\ LET list == sessions.session_state[s]["chat_history_stock"]
       IN sessions' = [sessions EXCEPT
                          !.heap[list] = Append(@, <<role, content>>),
                          !.added = @ + 1]
    /\ UNCHANGED <<AggregatorVars, probe, ui, chat, tab1>>

\* SessionStateManager.clear_chat() in session s: a new empty list
ClearChat(s) ==
    /\ s \in DOMAIN sessions.session_state
    /\ Cardinality(DOMAIN sessions.heap) < MaxLists
    /\ LET list == Cardinality(DOMAIN sessions.heap)
       IN sessions' = [sessions EXCEPT
                          !.heap = [o \in DOMAIN @ \cup {list} |->
                                       IF o = list THEN <<>> ELSE @[o]],
                          !.session_state[s] =
                              [key \in DOMAIN @ |->
                                  IF key = "chat_history_stock" THEN list
                                  ELSE @[key]]]
    /\ UNCHANGED <<AggregatorVars, probe, ui, chat, tab1>>

\* What session s types, and what the assistant answers it.
Contents(s) == {<<s, "asks">>, <<s, "is answered">>}

InitSessions ==
    /\ Tab3Idle
    /\ tab1 = NoTab1
    /\ sessions = NoSessions

NextSessions ==
    \/ \E s \in Sessions : Initialize(s)
    \/ \E s \in Sessions, role \in {"user", "assistant"} :
          \E content \in Contents(s) : AddMessage(s, role, content)
    \/ \E s \in Sessions : ClearChat(s)

SpecSessions == InitSessions /\ [][NextSessions]_vars

\* st.session_state.chat_history_stock of session s in the process p
chat_history_stock(p, s) == p.heap[p.session_state[s]["chat_history_stock"]]

\* The sessions whose messages are in the list.
Authors(history) == {history[n][2][1] : n \in DOMAIN history}

\* C27: chat histories are isolated per session: initialize gives a new
\* session an empty chat history, and a message added with add_message in
\* one session never appears in another session's history or in DEFAULTS,
\* whatever the interleaving of initialize, add_message and clear_chat of
\* the sessions.
C27_HistoriesIsolated ==
    [][/\ \A s \in DOMAIN sessions'.session_state :
             /\ s \notin DOMAIN sessions.session_state
                   => chat_history_stock(sessions', s) = <<>>
             /\ Authors(chat_history_stock(sessions', s)) \subseteq {s}
       /\ sessions'.heap[sessions'.DEFAULTS["chat_history_stock"]] = <<>>
      ]_vars
====
